---- MODULE Spec2Model ----
(***************************************************************************)
(* mini-holdem: the betting state machine of src/game.rs (Game, make_game, *)
(* advance_game, compute_pots, evaluate_showdown), the hand ranks of       *)
(* src/cards.rs, the codec of src/protocol.rs and the framing of           *)
(* src/networking.rs.                                                      *)
(*                                                                         *)
(* Spec is one Game from make_game on, under the calls src/bin/server.rs   *)
(* makes on it: advance_game with the action of a GameAction packet of the *)
(* seat on turn, and the Leave command, which folds a seat.  What the      *)
(* server does with the returned events (the packets it broadcasts,        *)
(* evaluate_showdown, the reset of the lobby) is outside this module's     *)
(* state: Spec follows the Game value itself, also past a Showdown event.  *)
(* SpecCall, SpecPots, SpecShowdown, SpecHands and SpecCodec apply one     *)
(* function to arguments drawn from bounded sets; SpecFrames is a          *)
(* connection read by one of the two loops of networking.rs.               *)
(*                                                                         *)
(* u32 values are written as integers.  A pot size computed with a         *)
(* wrapping subtraction (release build) is written as the integer that is  *)
(* congruent to it modulo 2^32 and lies nearest to 0: -5 stands for        *)
(* 2^32 - 5.                                                               *)
(***************************************************************************)
EXTENDS Integers, Sequences, FiniteSets, TLC

VARIABLES
    players,            \* Game.players: id -> Player
    current_bet,        \* Game.current_bet
    current_phase,      \* Game.current_phase
    current_turn,       \* Game.current_turn
    last_bettor,        \* Game.last_bettor
    public_cards,       \* Game.public_cards
    queued_for_removal, \* Lobby.queued_for_removal
    events,             \* the Vec<Event> returned by the last advance_game call
    status,             \* "ok", or how the calling thread ended: "panicked", "hung"
    last_call,          \* the last operation invoked and its input
    input,              \* the argument of the function a function-level specification applies
    output,             \* what that function returned
    stream,             \* the bytes written on a TcpStream and not yet read
    receiver,           \* the locals of the loop that reads it
    lobby,              \* Lobby.players and Lobby.id_list
    shared,             \* the GameState behind the mutex
    client_event_indexes    \* the local of server_run: connection -> messages handled

vars == <<players, current_bet, current_phase, current_turn, last_bettor,
          public_cards, queued_for_removal, events, status, last_call, input, output,
          stream, receiver, lobby, shared, client_event_indexes>>

game_vars == <<players, current_bet, current_phase, current_turn, last_bettor,
               public_cards>>

net_vars == <<stream, receiver>>

server_vars == <<lobby, shared, client_event_indexes>>

\* no connection is read where the functions applied read none
NoConnection == stream = <<>> /\ receiver = <<>>

\* no server runs where one function is applied
NoServer == lobby = <<>> /\ shared = <<>> /\ client_event_indexes = <<>>

(***************************************************************************)
(* Bounds of the model.                                                    *)
(***************************************************************************)
NumPlayers == 3
MaxStack == 12
MaxAmount == 3
MaxPhase == 6
MaxLevel == 3
MaxClients == 4

(***************************************************************************)
(* Program constants.                                                      *)
(***************************************************************************)
MinStack == 11
SmallBlind == 5
BigBlind == 10

Ids == 0 .. (NumPlayers - 1)
Stacks == MinStack .. MaxStack
\* the money of the lobby's users when the hand starts: the same for everyone
\* (Lobby.default_money in a first hand)
LobbyStacks == {[i \in Ids |-> s] : s \in Stacks}
Builds == {"debug", "release"}

Min(S) == CHOOSE x \in S : \A y \in S : x <= y

(***************************************************************************)
(* Cards and the deck.                                                     *)
(***************************************************************************)
Card(rank, suit) == [rank |-> rank, suit |-> suit]

\* the deck before the shuffle: suits 0..3, ranks 0..12 within each suit
OrderedDeck == [i \in 1 .. 52 |-> Card((i - 1) % 13, (i - 1) \div 13)]

ReverseSeq(s) == [i \in 1 .. Len(s) |-> s[Len(s) + 1 - i]]

\* The shuffle is seeded from the clock and the process id: the deck is some
\* permutation of the 52 cards.  Two of them are drawn here.
get_shuffled_deck == {OrderedDeck, ReverseSeq(OrderedDeck)}

\* deck.pop() number k (k = 1 is the first pop, the last card of the deck)
Pop(deck, k) == deck[Len(deck) + 1 - k]

(***************************************************************************)
(* cards.rs: hand ranks.  Card's Ord and PartialEq look at the rank only.  *)
(***************************************************************************)
\* HandCategory, by its discriminant
HighCard == 0
OnePair == 1
TwoPair == 2
ThreeKind == 3
Straight == 4
Flush == 5
FullHouse == 6
FourKind == 7
StraightFlush == 8
RoyalFlush == 9

\* std::cmp::Ordering
Less == "Less"
Equal == "Equal"
Greater == "Greater"
cmp(a, b) == IF a < b THEN Less ELSE IF a > b THEN Greater ELSE Equal
reverse(ordering) == CASE ordering = Less -> Greater
                       [] ordering = Greater -> Less
                       [] OTHER -> Equal

Range(s) == {s[i] : i \in DOMAIN s}

\* a Vec or array built element by element: the sequence of its elements
Vec(elements) == <<>> \o elements

\* slice::sort_by, a stable sort.  less[i][j] says that the comparison of
\* s[i] with s[j] is Less.  An element goes behind those that are less than
\* it and behind the equal ones that precede it in s.
sort_by(s, less) ==
    LET position == Vec([i \in DOMAIN s |->
                        1 + Cardinality({j \in DOMAIN s :
                                less[j][i] \/ (~less[i][j] /\ j < i)})])
    IN  Vec([p \in DOMAIN s |-> s[CHOOSE i \in DOMAIN s : position[i] = p]])

Ranks(cards) == Vec([i \in DOMAIN cards |-> cards[i].rank])

HandRank(category, primary, secondary, kickers) ==
    [category |-> category, primary |-> primary, secondary |-> secondary,
     kickers |-> kickers]

\* the five nested loops: the index tuples a < b < c < d < e (1-based here) in
\* the order the loops produce them, which is the lexicographic one
combination_indices ==
    LET tuples == {t \in [1 .. 5 -> 1 .. 7] : \A k \in 1 .. 4 : t[k] < t[k + 1]}
        lex_before(s, t) == \E k \in 1 .. 5 : /\ \A m \in 1 .. (k - 1) : s[m] = t[m]
                                              /\ s[k] < t[k]
    IN  Vec([n \in 1 .. 21 |->
            CHOOSE t \in tuples : Cardinality({s \in tuples : lex_before(s, t)}) = n - 1])

\* get_all_combinations with the outer loop one iteration short (for a in 0..2):
\* the last element of out keeps its initial value, five times cards[0]
get_all_combinations_short(cards) ==
    Vec([n \in 1 .. 21 |->
            IF n <= 20 THEN Vec([k \in 1 .. 5 |-> cards[combination_indices[n][k]]])
                       ELSE Vec([k \in 1 .. 5 |-> cards[1]])])

get_all_combinations(cards) ==
    Vec([n \in 1 .. 21 |-> Vec([k \in 1 .. 5 |-> cards[combination_indices[n][k]]])])

rank_hand(cards) ==
    LET hand == sort_by(cards, [i \in 1 .. 5 |-> [j \in 1 .. 5 |-> cards[i].rank < cards[j].rank]])
        is_flush == \A i \in 1 .. 5 : hand[i].suit = hand[1].suit
        is_low_ace == Ranks(hand) = <<0, 1, 2, 3, 12>>
        is_straight == is_low_ace \/ \A i \in 1 .. 4 : hand[i].rank + 1 = hand[i + 1].rank
        by_rank == Vec([r \in 1 .. 13 |-> SelectSeq(hand, LAMBDA c : c.rank = r - 1)])
        groups == sort_by(by_rank, [i \in 1 .. 13 |-> [j \in 1 .. 13 |->
                                        Len(by_rank[i]) > Len(by_rank[j])]])
        primary0 == IF Len(groups[1]) > 1 THEN groups[1] ELSE <<>>
        secondary0 == IF Len(groups[2]) > 1 THEN groups[2] ELSE <<>>
        is_kicker(i) == /\ ~(i = 1 /\ Len(groups[1]) > 1)
                        /\ ~(i = 2 /\ Len(groups[2]) > 1)
                        /\ groups[i] # <<>>
        pushed == SelectSeq(Vec([i \in 1 .. 13 |-> IF is_kicker(i) THEN <<groups[i][1]>> ELSE <<>>]),
                            LAMBDA g : g # <<>>)
        unsorted == Vec([i \in DOMAIN pushed |-> pushed[i][1]])
        kickers == sort_by(unsorted, [i \in DOMAIN unsorted |-> [j \in DOMAIN unsorted |->
                                         unsorted[j].rank < unsorted[i].rank]])
        swapped == /\ Len(primary0) = Len(secondary0)
                   /\ primary0 # <<>>
                   /\ secondary0 # <<>>
                   /\ secondary0[1].rank > primary0[1].rank
        counts == Vec([i \in 1 .. 5 |-> Len(groups[i])])
        category ==
            CASE counts = <<1, 1, 1, 1, 1>> /\ is_straight /\ is_flush ->
                     IF hand[1].rank = 8 THEN RoyalFlush ELSE StraightFlush
              [] counts = <<4, 1, 0, 0, 0>> -> FourKind
              [] counts = <<3, 2, 0, 0, 0>> -> FullHouse
              [] counts = <<3, 1, 1, 0, 0>> -> ThreeKind
              [] counts = <<2, 2, 1, 0, 0>> -> TwoPair
              [] counts = <<2, 1, 1, 1, 0>> -> OnePair
              [] counts = <<1, 1, 1, 1, 1>> /\ ~is_straight /\ is_flush -> Flush
              [] counts = <<1, 1, 1, 1, 1>> /\ is_straight /\ ~is_flush -> Straight
              [] OTHER -> HighCard
    IN  HandRank(category,
                 IF swapped THEN secondary0 ELSE primary0,
                 IF swapped THEN primary0 ELSE secondary0,
                 kickers)

\* ShowdownDecidingFactor
Category == [type |-> "Category"]
Primary(cards1, cards2) == [type |-> "Primary", cards1 |-> cards1, cards2 |-> cards2]
Secondary(cards1, cards2) == [type |-> "Secondary", cards1 |-> cards1, cards2 |-> cards2]
Kicker(cards1, cards2) == [type |-> "Kicker", cards1 |-> cards1, cards2 |-> cards2]
Tie == [type |-> "Tie"]

\* the first index at which the zipped kickers differ, 0 when there is none
first_kicker_difference(kickers1, kickers2) ==
    LET zipped == 1 .. Min({Len(kickers1), Len(kickers2)})
        differing == {i \in zipped : kickers1[i].rank # kickers2[i].rank}
    IN  IF differing = {} THEN 0 ELSE Min(differing)

\* compare_hand_ranks without the comparison of the secondary groups
compare_hand_ranks_no_secondary(hand1, hand2) ==
    LET both(cards1, cards2) == cards1 # <<>> /\ cards2 # <<>>
        k == first_kicker_difference(hand1.kickers, hand2.kickers)
    IN  IF hand1.category # hand2.category
        THEN <<cmp(hand1.category, hand2.category), Category>>
        ELSE IF both(hand1.primary, hand2.primary)
                    /\ hand1.primary[1].rank # hand2.primary[1].rank
        THEN <<cmp(hand1.primary[1].rank, hand2.primary[1].rank),
               Primary(hand1.primary, hand2.primary)>>
        ELSE IF k # 0
        THEN <<cmp(hand1.kickers[k].rank, hand2.kickers[k].rank),
               Kicker(hand1.kickers, hand2.kickers)>>
        ELSE <<Equal, Tie>>

\* the pair (Ordering, ShowdownDecidingFactor)
compare_hand_ranks(hand1, hand2) ==
    LET both(cards1, cards2) == cards1 # <<>> /\ cards2 # <<>>
        k == first_kicker_difference(hand1.kickers, hand2.kickers)
    IN  IF hand1.category # hand2.category
        THEN <<cmp(hand1.category, hand2.category), Category>>
        ELSE IF both(hand1.primary, hand2.primary)
                    /\ hand1.primary[1].rank # hand2.primary[1].rank
        THEN <<cmp(hand1.primary[1].rank, hand2.primary[1].rank),
               Primary(hand1.primary, hand2.primary)>>
        ELSE IF both(hand1.secondary, hand2.secondary)
                    /\ hand1.secondary[1].rank # hand2.secondary[1].rank
        THEN <<cmp(hand1.secondary[1].rank, hand2.secondary[1].rank),
               Secondary(hand1.secondary, hand2.secondary)>>
        ELSE IF k # 0
        THEN <<cmp(hand1.kickers[k].rank, hand2.kickers[k].rank),
               Kicker(hand1.kickers, hand2.kickers)>>
        ELSE <<Equal, Tie>>

\* HandRank's Ord
hand_rank_cmp(hand1, hand2) == compare_hand_ranks(hand1, hand2)[1]

\* the pair (five cards, HandRank) that is first once the 21 pairs are sorted
\* from the best rank down
get_best_hand_rank(cards) ==
    LET combinations == get_all_combinations(cards)
        hand_ranks == Vec([n \in DOMAIN combinations |->
                              <<combinations[n], rank_hand(combinations[n])>>])
    IN  sort_by(hand_ranks, [i \in 1 .. 21 |-> [j \in 1 .. 21 |->
                                hand_rank_cmp(hand_ranks[j][2], hand_ranks[i][2]) = Less]])[1]

(***************************************************************************)
(* Events and actions.                                                     *)
(***************************************************************************)
Fold == [type |-> "Fold"]
Check == [type |-> "Check"]
AddMoney(money) == [type |-> "AddMoney", money |-> money]

EvPlayerAction(id, action) == [type |-> "PlayerAction", id |-> id, action |-> action]
EvOwnedMoneyChange(id, money) == [type |-> "OwnedMoneyChange", id |-> id, money |-> money]
EvNextPlayer(id) == [type |-> "NextPlayer", id |-> id]
EvUpdateCurrentBet(money) == [type |-> "UpdateCurrentBet", money |-> money]
EvUpdatePots(pots) == [type |-> "UpdatePots", pots |-> pots]
EvRevealFlop(cards) == [type |-> "RevealFlop", cards |-> cards]
EvRevealTurn(card) == [type |-> "RevealTurn", cards |-> <<card>>]
EvRevealRiver(card) == [type |-> "RevealRiver", cards |-> <<card>>]
\* Showdown is written with the private cards of each player; the hand
\* ranks that go with them are those of get_showdown_info below
EvShowdown(ps) == [type |-> "Showdown", private_cards |-> [i \in DOMAIN ps |-> ps[i].private_cards]]

HasEvent(evs, t) == \E i \in 1 .. Len(evs) : evs[i].type = t
EventsOf(evs, t) == SelectSeq(evs, LAMBDA e : e.type = t)

(***************************************************************************)
(* Game::compute_pots                                                      *)
(***************************************************************************)
Player(money, total_contribution, private_cards, has_folded) ==
    [money |-> money, total_contribution |-> total_contribution,
     private_cards |-> private_cards, has_folded |-> has_folded]

Pot(money, eligible_players) == [money |-> money, eligible_players |-> eligible_players]

\* the size of one pot: (level - previous_level) * contributions.len()
pot_portion(level, previous_level, count) == (level - previous_level) * count

\* The loop of compute_pots.  contributions maps the ids still in the sorted
\* vector to what is left of their contribution; its first element is the
\* one with the least left.  eligible_players is a Vec in the code, in the
\* order of the HashMap's iteration among equal contributions: a set here.
RECURSIVE pots_loop(_, _, _)
pots_loop(ps, contributions, previous_level) ==
    IF DOMAIN contributions = {}
    THEN <<>>
    ELSE LET level == Min({contributions[i] : i \in DOMAIN contributions})
             portion == pot_portion(level, previous_level, Cardinality(DOMAIN contributions))
             pot == Pot(portion, {i \in DOMAIN contributions : ~ps[i].has_folded})
             retained == {i \in DOMAIN contributions : contributions[i] - level > 0}
         IN  <<pot>> \o pots_loop(ps, [i \in retained |-> contributions[i] - level], level)

compute_pots(ps) ==
    pots_loop(ps, [i \in {j \in DOMAIN ps : ps[j].total_contribution > 0}
                      |-> ps[i].total_contribution], 0)

\* level - previous_level is a u32 subtraction: below 0 it panics in a build
\* with overflow checks and wraps in one without
compute_pots_overflows(ps) ==
    \E k \in 1 .. Len(compute_pots(ps)) : compute_pots(ps)[k].money < 0

RECURSIVE SumPots(_)
SumPots(pots) == IF pots = <<>> THEN 0 ELSE Head(pots).money + SumPots(Tail(pots))

RECURSIVE SumContributions(_, _)
SumContributions(ps, ids) ==
    IF ids = {} THEN 0
    ELSE LET i == CHOOSE j \in ids : TRUE
         IN  ps[i].total_contribution + SumContributions(ps, ids \ {i})

(***************************************************************************)
(* Game::advance_game                                                      *)
(***************************************************************************)
Game == [players |-> players, current_bet |-> current_bet,
         current_phase |-> current_phase, current_turn |-> current_turn,
         last_bettor |-> last_bettor, public_cards |-> public_cards]

\* add_money_rejected without its second early return
add_money_rejected_first_only(player, money, bet) ==
    player.total_contribution + money < bet

\* the two early returns of the AddMoney arm
add_money_rejected(player, money, bet) ==
    \/ player.total_contribution + money < bet
    \/ (bet < money + player.total_contribution /\ money > player.money)

real_money(player, money) == IF money > player.money THEN player.money ELSE money

\* the early return of the Check arm
check_rejected(player, bet) == bet > player.total_contribution

\* What one call returns: the Game it leaves behind, the events, and how
\* the call ended ("ok": returned; "panicked"; "hung": never returns).
Result(g, evs, outcome) == [game |-> g, events |-> evs, outcome |-> outcome]

\* the AddMoney arm past its early returns (the amounts drawn here are far
\* from 2^32: total_contribution + money does not overflow)
add_money_accepted(g, money) ==
    LET turn == g.current_turn
        player == g.players[turn]
        real == real_money(player, money)
        raises == player.total_contribution + money > g.current_bet
        bet == IF raises THEN player.total_contribution + money ELSE g.current_bet
        player1 == [player EXCEPT !.money = @ - real, !.total_contribution = @ + real]
        g1 == [g EXCEPT !.current_bet = bet,
                        !.last_bettor = IF raises THEN turn ELSE @,
                        !.players = [@ EXCEPT ![turn] = player1]]
    IN  Result(g1,
               (IF raises THEN <<EvUpdateCurrentBet(bet)>> ELSE <<>>)
                   \o <<EvOwnedMoneyChange(turn, player1.money),
                        EvPlayerAction(turn, AddMoney(real))>>,
               "ok")

\* the match on the action: the rejected calls return the empty Vec
apply_action(g, action) ==
    LET turn == g.current_turn
        player == g.players[turn]
    IN  CASE action.type = "AddMoney" ->
                 IF ~(action.money > 0) THEN Result(g, <<>>, "panicked")    \* assert!(money > 0)
                 ELSE IF add_money_rejected(player, action.money, g.current_bet)
                      THEN Result(g, <<>>, "ok")
                      ELSE add_money_accepted(g, action.money)
          [] action.type = "Fold" ->
                 Result([g EXCEPT !.players = [@ EXCEPT ![turn] = [@ EXCEPT !.has_folded = TRUE]]],
                        <<EvPlayerAction(turn, Fold)>>, "ok")
          [] action.type = "Check" ->
                 IF check_rejected(player, g.current_bet)
                 THEN Result(g, <<>>, "ok")
                 ELSE Result(g, <<EvPlayerAction(turn, Check)>>, "ok")

IsActive(p) == p.money > 0 /\ ~p.has_folded
ActivePlayers(ps) == {i \in DOMAIN ps : IsActive(ps[i])}

\* one_active_player counting the folded players that have money too
one_active_player_with_folded(ps) == Cardinality({i \in DOMAIN ps : ps[i].money > 0}) = 1

\* the test that short-circuits to the showdown
one_active_player(ps) == Cardinality(ActivePlayers(ps)) = 1

\* the search for the next player to act; it does not end when nobody is active
next_turn_diverges(ps) == ActivePlayers(ps) = {}

next_turn(ps, turn) ==
    LET player_count == Cardinality(DOMAIN ps)
        steps == {k \in 1 .. player_count : (turn + k) % player_count \in ActivePlayers(ps)}
    IN  (turn + Min(steps)) % player_count

\* the event pushed when a round closes, by the phase being left
reveal_events(g) ==
    CASE g.current_phase = 1 -> <<EvRevealFlop(SubSeq(g.public_cards, 1, 3))>>
      [] g.current_phase = 2 -> <<EvRevealTurn(g.public_cards[4])>>
      [] g.current_phase = 3 -> <<EvRevealRiver(g.public_cards[5])>>
      [] g.current_phase = 4 -> <<EvShowdown(g.players)>>
      [] OTHER -> <<>>

\* the closing of a betting round
close_round(g, next) ==
    [g EXCEPT !.current_bet = @ + 1, !.last_bettor = next, !.current_phase = @ + 1]

\* what follows the match once the action is accepted
after_action(g, evs, build) ==
    IF compute_pots_overflows(g.players) /\ build = "debug"
    THEN Result(g, <<>>, "panicked")
    ELSE LET evs1 == evs \o <<EvUpdatePots(compute_pots(g.players))>>
         IN  IF one_active_player(g.players)
             THEN Result(g, evs1 \o <<EvShowdown(g.players)>>, "ok")
             ELSE IF next_turn_diverges(g.players)
             THEN Result(g, <<>>, "hung")
             ELSE LET next == next_turn(g.players, g.current_turn)
                  IN  IF next = g.last_bettor
                      THEN Result(close_round(g, next),
                                  evs1 \o reveal_events(g) \o <<EvNextPlayer(next)>>, "ok")
                      ELSE Result(g, evs1 \o <<EvNextPlayer(next)>>, "ok")

advance_game(g, action, build) ==
    LET r == apply_action(g, action)
    IN  IF r.outcome = "ok" /\ r.events # <<>>
        THEN after_action(r.game, r.events, build)
        ELSE r


(***************************************************************************)
(* make_game                                                               *)
(***************************************************************************)
\* lobby_players is (id, money) for the seats 0 .. n-1, as check_for_game_start
\* passes them; each player pops two cards, then the five public cards are popped
make_game(stacks, deck) ==
    LET n == Cardinality(DOMAIN stacks)
        dealt == [i \in DOMAIN stacks |->
                     Player(stacks[i], 0, <<Pop(deck, 2 * i + 1), Pop(deck, 2 * i + 2)>>, FALSE)]
        blinds == [dealt EXCEPT ![1].money = @ - SmallBlind, ![2].money = @ - BigBlind]
    IN  [players |-> blinds, current_bet |-> 0, current_phase |-> 0,
         current_turn |-> 3 % n, last_bettor |-> 2,
         public_cards |-> [k \in 1 .. 5 |-> Pop(deck, 2 * n + k)]]

(***************************************************************************)
(* Game::evaluate_showdown                                                 *)
(***************************************************************************)
\* u32 arithmetic on values written as in the header: a value of 2^31 or more
\* is written as the negative integer congruent to it modulo 2^32
MaxI32 == 2147483647

\* u32::wrapping_add, what += does in a build without overflow checks
wrapping_add(x, y) ==
    IF x > 0 /\ y > 0 /\ x > MaxI32 - y THEN ((x - MaxI32) + (y - MaxI32)) - 2
    ELSE IF x < 0 /\ y < 0 /\ x < ((-MaxI32) - 1) - y THEN ((x + MaxI32) + (y + MaxI32)) + 2
    ELSE x + y

\* whether the u32 sum of x and y is 2^32 or more
add_overflows(x, y) ==
    \/ x < 0 /\ y < 0
    \/ (x < 0) # (y < 0) /\ wrapping_add(x, y) >= 0

\* the u32 division and remainder by a count k >= 1; for x written negative
\* the dividend is 2^32 + x = 2 * MaxI32 + 2 + x
u32_div(x, k) ==
    IF x >= 0 THEN x \div k
    ELSE IF k = 1 THEN x
    ELSE 2 * (MaxI32 \div k) + ((2 * (MaxI32 % k) + 2 + x) \div k)

u32_rem(x, k) ==
    IF x >= 0 THEN x % k
    ELSE IF k = 1 THEN 0
    ELSE (2 * (MaxI32 % k) + 2 + x) % k

RECURSIVE wrapping_sum(_)
wrapping_sum(amounts) ==
    IF amounts = <<>> THEN 0
    ELSE wrapping_add(Head(amounts), wrapping_sum(Tail(amounts)))

\* the win_reason of a step without one (named None in game.rs, Tie in cards.rs)
NoReason == [type |-> "None"]

ShowdownStep(winners, winnings, pot_start_index, pot_end_index, eligible_players, win_reason) ==
    [winners |-> winners, winnings |-> winnings, pot_start_index |-> pot_start_index,
     pot_end_index |-> pot_end_index, eligible_players |-> eligible_players,
     win_reason |-> win_reason]

\* the deck whose pops give the cards of top, in that order, first
DeckWith(top) ==
    SelectSeq(OrderedDeck, LAMBDA c : \A i \in DOMAIN top : top[i] # c) \o ReverseSeq(top)

\* the deck that deals privates[i + 1] to seat i and then the board
DeckDealing(privates, board) ==
    DeckWith(Vec([k \in 1 .. (2 * NumPlayers) |-> privates[(k + 1) \div 2][2 - (k % 2)]]) \o board)

\* king, nine, six, three, two of mixed suits: no straight or flush with the
\* private cards below
DryBoard == <<Card(11, 2), Card(7, 0), Card(4, 1), Card(1, 3), Card(0, 2)>>
RoyalBoard == <<Card(8, 0), Card(9, 0), Card(10, 0), Card(11, 0), Card(12, 0)>>
AceQueenA == <<Card(12, 0), Card(10, 0)>>
AceQueenB == <<Card(12, 1), Card(10, 1)>>
JackEight == <<Card(9, 0), Card(6, 1)>>
KingFive == <<Card(11, 0), Card(3, 0)>>
Aces == <<Card(12, 2), Card(12, 3)>>
TenSeven == <<Card(8, 1), Card(5, 0)>>
QueenFour == <<Card(10, 2), Card(2, 3)>>

\* Shuffles for the showdown: seats 0 and 1 tie above seat 2; seats 0 and 1
\* tie below seat 2; seat 2 above seat 1 above seat 0; the board is the best
\* hand of every seat.  (The seats from 3 on hold high cards.)
ShowdownDecks ==
    {DeckDealing(<<AceQueenA, AceQueenB, JackEight, TenSeven, QueenFour>>, DryBoard),
     DeckDealing(<<AceQueenA, AceQueenB, Aces, TenSeven, QueenFour>>, DryBoard),
     DeckDealing(<<JackEight, KingFive, Aces, TenSeven, QueenFour>>, DryBoard),
     DeckDealing(<<JackEight, KingFive, Aces, TenSeven, QueenFour>>, RoyalBoard)}

\* the seven cards get_showdown_info passes to get_best_hand_rank for a
\* player: the two private cards, then the public cards
all_cards(player, public) == player.private_cards \o public

\* get_best_hand_rank of the hands the shuffles above deal, evaluated once
best_hand_ranks ==
    LET dealt == {all_cards(make_game([i \in Ids |-> MinStack], deck).players[p],
                            make_game([i \in Ids |-> MinStack], deck).public_cards) :
                      deck \in ShowdownDecks, p \in Ids}
        lobby_dealt == UNION {{all_cards(make_game([i \in 0 .. (n - 1) |-> MinStack + 1],
                                                   deck).players[p],
                                         make_game([i \in 0 .. (n - 1) |-> MinStack + 1],
                                                   deck).public_cards) :
                                   deck \in get_shuffled_deck, p \in 0 .. (n - 1)} :
                              n \in 3 .. MaxClients}
    IN  [cards \in dealt \cup lobby_dealt |-> get_best_hand_rank(cards)]

\* id -> HandRank of the best hand of the player's two cards and the five
\* public cards, for every player, folded or not.  (game.rs takes the value
\* get_best_hand_rank returns for the HandRank; in cards.rs it is the second
\* component of that value.)
get_showdown_info(g) ==
    [i \in DOMAIN g.players |->
        CHOOSE rank \in {(IF cards \in DOMAIN ranks THEN ranks[cards]
                          ELSE get_best_hand_rank(cards))[2] :
                             cards \in {all_cards(g.players[i], g.public_cards)},
                             ranks \in {best_hand_ranks}} : TRUE]

\* the ids of a set in ascending order
ascending(ids) ==
    LET nth(i) == CHOOSE x \in ids : Cardinality({y \in ids : y < x}) = i - 1
    IN  Vec([i \in 1 .. Cardinality(ids) |-> nth(i)])

\* the players of info that the pot lists, sorted from the best HandRank down
\* and by ascending id among equal ranks
sorted_eligible(info, pot) ==
    LET unsorted == ascending({i \in DOMAIN info : i \in pot.eligible_players})
    IN  sort_by(unsorted, [a \in DOMAIN unsorted |-> [b \in DOMAIN unsorted |->
            \/ hand_rank_cmp(info[unsorted[b]], info[unsorted[a]]) = Less
            \/ /\ hand_rank_cmp(info[unsorted[b]], info[unsorted[a]]) = Equal
               /\ unsorted[a] < unsorted[b]]])

\* leading_run without the players that tie with the first
leading_run_first_only(info, eligible) == SubSeq(eligible, 1, 1)

\* the first of the sorted players and those that follow it with an equal rank
leading_run(info, eligible) ==
    LET n == CHOOSE k \in 1 .. Len(eligible) :
                 /\ \A m \in 1 .. k : hand_rank_cmp(info[eligible[m]], info[eligible[1]]) = Equal
                 /\ k < Len(eligible) =>
                        hand_rank_cmp(info[eligible[k + 1]], info[eligible[1]]) # Equal
    IN  SubSeq(eligible, 1, n)

\* last_pot_won without the inner loop: the winners take pot i alone
last_pot_won_alone(pots, i, winners) == i

\* the index of the last pot the winners take with pot i: the pots after i
\* are added as long as they list every winner
last_pot_won(pots, i, winners) ==
    CHOOSE e \in i .. Len(pots) :
        /\ \A m \in (i + 1) .. e : \A w \in DOMAIN winners : winners[w] \in pots[m].eligible_players
        /\ e < Len(pots) =>
               \E w \in DOMAIN winners : winners[w] \notin pots[e + 1].eligible_players

win_reason(info, winners, eligible) ==
    IF Len(winners) = 1 /\ Len(eligible) > 1
    THEN compare_hand_ranks(info[winners[1]], info[eligible[2]])[2]
    ELSE NoReason

\* the money of the players after the winnings are split among the winners
pay_winners(ps, winners, winnings) ==
    LET player_winnings == u32_div(winnings, Len(winners))
        remainder == u32_rem(winnings, Len(winners))
        share(w) == IF w <= remainder THEN wrapping_add(player_winnings, 1) ELSE player_winnings
    IN  [i \in DOMAIN ps |->
            IF \E w \in DOMAIN winners : winners[w] = i
            THEN [ps[i] EXCEPT !.money = wrapping_add(@, share(CHOOSE w \in DOMAIN winners : winners[w] = i))]
            ELSE ps[i]]

\* the while loop over the pots, from pot i on (1-based here; the indices of
\* a step are the 0-based ones of the code).  A pot that lists no player is
\* skipped with `continue' before i is increased: the loop never ends.
RECURSIVE showdown_loop(_, _, _, _, _)
showdown_loop(ps, info, pots, i, steps) ==
    IF i > Len(pots) THEN [players |-> ps, steps |-> steps, outcome |-> "ok"]
    ELSE IF {p \in DOMAIN info : p \in pots[i].eligible_players} = {}
    THEN [players |-> ps, steps |-> steps, outcome |-> "hung"]
    ELSE LET eligible == sorted_eligible(info, pots[i])
             winners == leading_run(info, eligible)
             e == last_pot_won(pots, i, winners)
             winnings == wrapping_sum(Vec([m \in 1 .. (e - i + 1) |-> pots[i + m - 1].money]))
             step == ShowdownStep(winners, winnings, i - 1, e - 1, eligible,
                                  win_reason(info, winners, eligible))
         IN  showdown_loop(pay_winners(ps, winners, winnings), info, pots, e + 1,
                           Append(steps, step))

\* evaluate_showdown: the Game it leaves behind, the steps, and how the call
\* ended.  In a build with overflow checks compute_pots panics where a pot
\* size wraps; the sums and stacks of the other tables are far from 2^32.
evaluate_showdown(g, build) ==
    IF g.current_phase # 4 THEN [game |-> g, steps |-> <<>>, outcome |-> "panicked"]
    ELSE IF compute_pots_overflows(g.players) /\ build = "debug"
    THEN [game |-> g, steps |-> <<>>, outcome |-> "panicked"]
    ELSE CHOOSE out \in
             {[game |-> [g EXCEPT !.players = r.players],
               steps |-> IF r.outcome = "ok" THEN r.steps ELSE <<>>,
               outcome |-> r.outcome] :
                  r \in {showdown_loop(g.players, info, pots, 1, <<>>) :
                             info \in {get_showdown_info(g)},
                             pots \in {compute_pots(g.players)}}} : TRUE

(***************************************************************************)
(* protocol.rs: the messages and their encoding.  A String is written as   *)
(* the sequence of its bytes, an Option as the empty sequence or the       *)
(* sequence of one value, a HashMap as a function.                         *)
(***************************************************************************)
\* ServerBound
Login(username) == [type |-> "Login", username |-> username]
LeaveCommand == [type |-> "Leave"]
Ready(ready) == [type |-> "Ready", ready |-> ready]
GetPlayerList == [type |-> "GetPlayerList"]
GameAction(action) == [type |-> "GameAction", action |-> action]

\* ClientBound
UpdatePlayerList(list) == [type |-> "UpdatePlayerList", players |-> list]
YourId(id) == [type |-> "YourId", id |-> id]
PlayerLeft(username) == [type |-> "PlayerLeft", username |-> username]
PlayerJoined(username) == [type |-> "PlayerJoined", username |-> username]
GameStarted(cards) == [type |-> "GameStarted", cards |-> cards]
GameEvent(event) == [type |-> "GameEvent", event |-> event]

\* the GameEvent variants that are not among the events written above
GeShowdown(map) == [type |-> "Showdown", map |-> map]
GeShowdownSteps(steps) == [type |-> "ShowdownSteps", steps |-> steps]

\* an entry of the player list: (ready, folded, money, username)
ListedPlayer(ready, folded, money, username) ==
    [ready |-> ready, folded |-> folded, money |-> money, username |-> username]

None == <<>>
Some(value) == <<value>>

\* the list terminator and the byte of an absent card
Sentinel == 255

\* u32::to_be_bytes, the bytes of u32::to_le_bytes in the opposite order
to_be_bytes(money) ==
    <<(money \div 16777216) % 256, (money \div 65536) % 256, (money \div 256) % 256,
      money % 256>>

\* u32::to_le_bytes and u32::from_le_bytes
to_le_bytes(money) ==
    <<money % 256, (money \div 256) % 256, (money \div 65536) % 256,
      (money \div 16777216) % 256>>

from_le_bytes(bytes) ==
    bytes[1] + 256 * bytes[2] + 65536 * bytes[3]
        + 16777216 * (IF bytes[4] >= 128 THEN bytes[4] - 256 ELSE bytes[4])

append_money(msg, money) == msg \o to_le_bytes(money)
append_username(msg, username) == msg \o username

\* Card::to_byte, suit << 4 | rank, for a rank below 16
to_byte(card) == ((card.suit * 16) % 256) + card.rank

\* Card::from_byte, an Option
from_byte(byte) ==
    IF byte % 16 > 12 THEN None ELSE Some(Card(byte % 16, byte \div 16))

option_card_to_byte(card) == IF card = None THEN Sentinel ELSE to_byte(card[1])

bool_byte(b) == IF b THEN 1 ELSE 0

\* concat of the encodings of the elements of a list
RECURSIVE flat_map(_, _)
flat_map(list, encoded) ==
    IF list = <<>> THEN <<>>
    ELSE encoded[Head(list)] \o flat_map(Tail(list), encoded)

encode_server_bound(event) ==
    CASE event.type = "Login" -> append_username(<<0, 0>>, event.username)
      [] event.type = "Leave" -> <<0, 2>>
      [] event.type = "Ready" -> <<0, 3, bool_byte(event.ready)>>
      [] event.type = "GetPlayerList" -> <<0, 4>>
      [] event.type = "GameAction" ->
             CASE event.action.type = "Check" -> <<1, 0>>
               [] event.action.type = "AddMoney" -> append_money(<<1, 1>>, event.action.money)
               [] event.action.type = "Fold" -> <<1, 2>>

encode_listed_player(p) ==
    append_username(append_money(<<bool_byte(p.ready), bool_byte(p.folded)>>, p.money),
                    p.username) \o <<Sentinel>>

encode_pot(pot) == to_le_bytes(pot.money) \o pot.eligible_players \o <<Sentinel>>

\* one entry of the Showdown map; 5 - kickers.len() is a usize subtraction
encode_showdown_entry(id, entry) ==
    <<id, to_byte(entry.cards[1]), to_byte(entry.cards[2]), entry.hand_rank.category,
      option_card_to_byte(entry.hand_rank.primary),
      option_card_to_byte(entry.hand_rank.secondary)>>
        \o Vec([k \in DOMAIN entry.hand_rank.kickers |-> to_byte(entry.hand_rank.kickers[k])])
        \o Vec([k \in 1 .. (5 - Len(entry.hand_rank.kickers)) |-> Sentinel])

encode_win_reason(reason) ==
    CASE reason.type = "Category" -> <<0, Sentinel, Sentinel>>
      [] reason.type = "Primary" -> <<1, to_byte(reason.cards1), to_byte(reason.cards2)>>
      [] reason.type = "Secondary" -> <<2, to_byte(reason.cards1), to_byte(reason.cards2)>>
      [] reason.type = "Kicker" -> <<3, to_byte(reason.cards1), to_byte(reason.cards2)>>
      [] reason.type = "None" -> <<Sentinel, Sentinel, Sentinel>>

encode_step(step) ==
    step.winners \o <<Sentinel>> \o to_le_bytes(step.winnings)
        \o <<step.pot_start_index, step.pot_end_index>>
        \o step.eligible_players \o <<Sentinel>> \o encode_win_reason(step.win_reason)

encode_game_event(e, order) ==
    CASE e.type = "PlayerAction" ->
             (CASE e.action.type = "Check" -> <<1, 3, e.id, 0>>
                [] e.action.type = "AddMoney" -> append_money(<<1, 3, e.id, 1>>, e.action.money)
                [] e.action.type = "Fold" -> <<1, 3, e.id, 2>>)
      [] e.type = "OwnedMoneyChange" -> append_money(<<0, 2, e.id>>, e.money)
      [] e.type = "NextPlayer" -> <<1, 2, e.id>>
      [] e.type = "UpdateCurrentBet" -> append_money(<<1, 5>>, e.money)
      [] e.type = "UpdatePots" ->
             <<1, 6>> \o flat_map(e.pots, [pot \in Range(e.pots) |-> encode_pot(pot)])
      [] e.type = "RevealFlop" ->
             <<1, 8, to_byte(e.cards[1]), to_byte(e.cards[2]), to_byte(e.cards[3])>>
      [] e.type = "RevealTurn" -> <<1, 9, to_byte(e.cards[1])>>
      [] e.type = "RevealRiver" -> <<1, 10, to_byte(e.cards[1])>>
      [] e.type = "Showdown" ->
             <<1, 11>> \o flat_map(order, [id \in DOMAIN e.map |->
                                              encode_showdown_entry(id, e.map[id])])
      [] e.type = "ShowdownSteps" ->
             <<1, 13>> \o flat_map(e.steps, [step \in Range(e.steps) |-> encode_step(step)])

\* order is the order in which the HashMap of a Showdown event is iterated
encode_client_bound(event, order) ==
    CASE event.type = "UpdatePlayerList" ->
             <<0, 0>> \o flat_map(event.players,
                                  [p \in Range(event.players) |-> encode_listed_player(p)])
      [] event.type = "YourId" -> <<0, 4, event.id>>
      [] event.type = "PlayerLeft" -> append_username(<<0, 5>>, event.username)
      [] event.type = "PlayerJoined" -> append_username(<<0, 6>>, event.username)
      [] event.type = "GameStarted" ->
             <<1, 0, to_byte(event.cards[1]), to_byte(event.cards[2])>>
      [] event.type = "GameEvent" -> encode_game_event(event.event, order)

\* the outcome of a decoder is None, Some(event) or a panic
Panic == <<"panic", "index out of bounds">>

\* msg.len() < needed, the test before the reads of a fixed-width layout
too_short_by_more_than_one(msg, needed) == Len(msg) + 1 < needed

too_short(msg, needed) == Len(msg) < needed

\* msg[idx] panics when idx is not below msg.len(); idx counts from 0
index_panics(msg, idx) == idx >= Len(msg)

at(msg, idx) == msg[idx + 1]

\* msg.get(from..to)
get(msg, from, to) == IF to > Len(msg) THEN None ELSE Some(SubSeq(msg, from + 1, to))

\* String::from_utf8(bytes).ok(); the strings of the model are ASCII, and
\* the only other byte it is given is 255, which no UTF-8 string holds
from_utf8(bytes) == IF \A i \in DOMAIN bytes : bytes[i] < 128 THEN Some(bytes) ELSE None

\* HandCategory::from_byte
category_from_byte(byte) == IF byte \in HighCard .. RoyalFlush THEN Some(byte) ELSE None

\* [Card::from_byte(b1)?, ...]
cards_from_bytes(bytes) ==
    IF \E i \in DOMAIN bytes : from_byte(bytes[i]) = None THEN None
    ELSE Some(Vec([i \in DOMAIN bytes |-> from_byte(bytes[i])[1]]))

\* where `while idx < msg.len() && msg[idx] != 255 { ...; idx += 1 }` stops
RECURSIVE list_end(_, _)
list_end(msg, idx) ==
    IF idx < Len(msg) /\ at(msg, idx) # Sentinel THEN list_end(msg, idx + 1) ELSE idx

decode_server_bound(msg) ==
    IF too_short(msg, 2) THEN None
    ELSE IF index_panics(msg, 1) THEN Panic
    ELSE CASE SubSeq(msg, 1, 2) = <<0, 0>> ->
                  IF too_short(msg, 3) THEN None
                  ELSE LET username == from_utf8(SubSeq(msg, 3, Len(msg)))
                       IN  IF username = None THEN None ELSE Some(Login(username[1]))
           [] SubSeq(msg, 1, 2) = <<0, 2>> -> Some(LeaveCommand)
           [] SubSeq(msg, 1, 2) = <<0, 3>> ->
                  IF too_short(msg, 3) THEN None
                  ELSE IF index_panics(msg, 2) THEN Panic
                  ELSE Some(Ready(at(msg, 2) # 0))
           [] SubSeq(msg, 1, 2) = <<0, 4>> -> Some(GetPlayerList)
           [] SubSeq(msg, 1, 2) = <<1, 0>> -> Some(GameAction(Check))
           [] SubSeq(msg, 1, 2) = <<1, 1>> ->
                  IF too_short(msg, 6) THEN None
                  ELSE IF index_panics(msg, 5) THEN Panic
                  ELSE Some(GameAction(AddMoney(from_le_bytes(SubSeq(msg, 3, 6)))))
           [] SubSeq(msg, 1, 2) = <<1, 2>> -> Some(GameAction(Fold))
           [] OTHER -> None

RECURSIVE decode_player_list(_, _, _)
decode_player_list(msg, idx, list) ==
    IF ~(idx < Len(msg)) THEN Some(UpdatePlayerList(list))
    ELSE IF too_short(msg, idx + 3) THEN None
    ELSE IF index_panics(msg, idx + 1) THEN Panic
    ELSE IF get(msg, idx + 2, idx + 6) = None THEN None
    ELSE LET end == list_end(msg, idx + 6)
             username == from_utf8(SubSeq(msg, idx + 7, end))
         IN  IF username = None THEN None
             ELSE decode_player_list(msg, end + 1,
                      Append(list, ListedPlayer(at(msg, idx) # 0, at(msg, idx + 1) # 0,
                                                   from_le_bytes(get(msg, idx + 2, idx + 6)[1]),
                                                   username[1])))

RECURSIVE decode_pots(_, _, _)
decode_pots(msg, idx, pots) ==
    IF ~(idx < Len(msg)) THEN Some(GameEvent(EvUpdatePots(pots)))
    ELSE IF too_short(msg, idx + 4) THEN None
    ELSE IF index_panics(msg, idx + 3) THEN Panic
    ELSE LET end == list_end(msg, idx + 4)
         IN  decode_pots(msg, end + 1,
                 Append(pots, Pot(from_le_bytes(SubSeq(msg, idx + 1, idx + 4)),
                                  SubSeq(msg, idx + 5, end))))

\* for _ in 0..5 { ... }: the kickers of one Showdown entry, left slots to read
RECURSIVE decode_kickers(_, _, _, _)
decode_kickers(msg, idx, left, kickers) ==
    IF left = 0 THEN Some(kickers)
    ELSE IF idx >= Len(msg) THEN None
    ELSE IF at(msg, idx) = Sentinel THEN decode_kickers(msg, idx + 1, left - 1, kickers)
    ELSE IF from_byte(at(msg, idx)) = None THEN None
    ELSE decode_kickers(msg, idx + 1, left - 1, Append(kickers, from_byte(at(msg, idx))[1]))

option_card_from_byte(byte) == IF byte = Sentinel THEN Some(None) ELSE
    IF from_byte(byte) = None THEN None ELSE Some(from_byte(byte))

insert(map, key, value) ==
    [k \in DOMAIN map \cup {key} |-> IF k = key THEN value ELSE map[k]]

ShowdownEntry(cards, hand_rank) == [cards |-> cards, hand_rank |-> hand_rank]

RECURSIVE decode_showdown(_, _, _)
decode_showdown(msg, idx, map) ==
    IF ~(idx < Len(msg)) THEN Some(GameEvent(GeShowdown(map)))
    ELSE IF too_short(msg, idx + 6) THEN None
    ELSE IF index_panics(msg, idx + 5) THEN Panic
    ELSE LET cards == cards_from_bytes(SubSeq(msg, idx + 2, idx + 3))
             primary == option_card_from_byte(at(msg, idx + 4))
             secondary == option_card_from_byte(at(msg, idx + 5))
             kickers == decode_kickers(msg, idx + 6, 5, <<>>)
             category == category_from_byte(at(msg, idx + 3))
         IN  IF None \in {cards, primary, secondary, kickers, category} THEN None
             ELSE decode_showdown(msg, idx + 11,
                      insert(map, at(msg, idx),
                             ShowdownEntry(cards[1], HandRank(category[1], primary[1],
                                                              secondary[1], kickers[1]))))

\* the three bytes of a win_reason, the first of them at idx
decode_win_reason(msg, idx) ==
    LET cards == cards_from_bytes(SubSeq(msg, idx + 2, idx + 3))
    IN  CASE at(msg, idx) = 0 -> Some([type |-> "Category"])
          [] at(msg, idx) = 1 -> IF cards = None THEN None ELSE Some(Primary(cards[1][1], cards[1][2]))
          [] at(msg, idx) = 2 -> IF cards = None THEN None ELSE Some(Secondary(cards[1][1], cards[1][2]))
          [] at(msg, idx) = 3 -> IF cards = None THEN None ELSE Some(Kicker(cards[1][1], cards[1][2]))
          [] at(msg, idx) = Sentinel -> Some(NoReason)
          [] OTHER -> None

RECURSIVE decode_steps(_, _, _)
decode_steps(msg, idx, steps) ==
    IF ~(idx < Len(msg)) THEN Some(GameEvent(GeShowdownSteps(steps)))
    ELSE LET winners_end == list_end(msg, idx)
             fixed == winners_end + 1
         IN  IF too_short(msg, fixed + 8) THEN None
             ELSE IF index_panics(msg, fixed + 5) THEN Panic
             ELSE LET eligible_end == list_end(msg, fixed + 6)
                      reason == eligible_end + 1
                  IN  IF too_short(msg, reason + 3) THEN None
                      ELSE IF index_panics(msg, reason + 2) THEN Panic
                      ELSE IF decode_win_reason(msg, reason) = None THEN None
                      ELSE decode_steps(msg, reason + 3,
                               Append(steps,
                                      ShowdownStep(SubSeq(msg, idx + 1, winners_end),
                                                   from_le_bytes(SubSeq(msg, fixed + 1, fixed + 4)),
                                                   at(msg, fixed + 4), at(msg, fixed + 5),
                                                   SubSeq(msg, fixed + 7, eligible_end),
                                                   decode_win_reason(msg, reason)[1])))

\* the arm of a message that is some cards after the two leading bytes
decode_cards(msg, count) ==
    IF too_short(msg, 2 + count) THEN None
    ELSE IF index_panics(msg, 1 + count) THEN Panic
    ELSE cards_from_bytes(SubSeq(msg, 3, 2 + count))

decode_client_bound(msg) ==
    IF too_short(msg, 2) THEN None
    ELSE IF index_panics(msg, 1) THEN Panic
    ELSE CASE SubSeq(msg, 1, 2) = <<0, 0>> -> decode_player_list(msg, 2, <<>>)
           [] SubSeq(msg, 1, 2) = <<0, 2>> ->
                  IF too_short(msg, 6) THEN None
                  ELSE IF index_panics(msg, 2) THEN Panic
                  ELSE IF get(msg, 3, 7) = None THEN None
                  ELSE Some(GameEvent(EvOwnedMoneyChange(at(msg, 2),
                                                         from_le_bytes(get(msg, 3, 7)[1]))))
           [] SubSeq(msg, 1, 2) = <<0, 4>> ->
                  IF too_short(msg, 3) THEN None
                  ELSE IF index_panics(msg, 2) THEN Panic
                  ELSE Some(YourId(at(msg, 2)))
           [] SubSeq(msg, 1, 2) \in {<<0, 5>>, <<0, 6>>} ->
                  IF too_short(msg, 3) THEN None
                  ELSE LET username == from_utf8(SubSeq(msg, 3, Len(msg)))
                       IN  IF username = None THEN None
                           ELSE IF at(msg, 1) = 5 THEN Some(PlayerLeft(username[1]))
                           ELSE Some(PlayerJoined(username[1]))
           [] SubSeq(msg, 1, 2) = <<1, 0>> ->
                  LET cards == decode_cards(msg, 2)
                  IN  IF cards \in {None, Panic} THEN cards ELSE Some(GameStarted(cards[1]))
           [] SubSeq(msg, 1, 2) = <<1, 2>> ->
                  IF too_short(msg, 3) THEN None
                  ELSE IF index_panics(msg, 2) THEN Panic
                  ELSE Some(GameEvent(EvNextPlayer(at(msg, 2))))
           [] SubSeq(msg, 1, 2) = <<1, 3>> ->
                  IF too_short(msg, 4) THEN None
                  ELSE IF index_panics(msg, 3) THEN Panic
                  ELSE CASE at(msg, 3) = 0 -> Some(GameEvent(EvPlayerAction(at(msg, 2), Check)))
                         [] at(msg, 3) = 1 ->
                                IF too_short(msg, 8) THEN None
                                ELSE IF get(msg, 4, 8) = None THEN None
                                ELSE Some(GameEvent(EvPlayerAction(at(msg, 2),
                                              AddMoney(from_le_bytes(get(msg, 4, 8)[1])))))
                         [] at(msg, 3) = 2 -> Some(GameEvent(EvPlayerAction(at(msg, 2), Fold)))
                         [] OTHER -> None
           [] SubSeq(msg, 1, 2) = <<1, 5>> ->
                  IF too_short(msg, 6) THEN None
                  ELSE IF get(msg, 2, 6) = None THEN None
                  ELSE Some(GameEvent(EvUpdateCurrentBet(from_le_bytes(get(msg, 2, 6)[1]))))
           [] SubSeq(msg, 1, 2) = <<1, 6>> -> decode_pots(msg, 2, <<>>)
           [] SubSeq(msg, 1, 2) = <<1, 8>> ->
                  LET cards == decode_cards(msg, 3)
                  IN  IF cards \in {None, Panic} THEN cards
                      ELSE Some(GameEvent(EvRevealFlop(cards[1])))
           [] SubSeq(msg, 1, 2) = <<1, 9>> ->
                  LET cards == decode_cards(msg, 1)
                  IN  IF cards \in {None, Panic} THEN cards
                      ELSE Some(GameEvent(EvRevealTurn(cards[1][1])))
           [] SubSeq(msg, 1, 2) = <<1, 10>> ->
                  LET cards == decode_cards(msg, 1)
                  IN  IF cards \in {None, Panic} THEN cards
                      ELSE Some(GameEvent(EvRevealRiver(cards[1][1])))
           [] SubSeq(msg, 1, 2) = <<1, 11>> -> decode_showdown(msg, 2, << >>)
           [] SubSeq(msg, 1, 2) = <<1, 13>> -> decode_steps(msg, 2, <<>>)
           [] OTHER -> None

(***************************************************************************)
(* networking.rs: the two loops that read length-prefixed frames from a    *)
(* TcpStream, handle_client on the server and client_network_loop on the   *)
(* client.  output holds what a loop has handed to the decoder (handed)    *)
(* and what it has sent on its channel (sent).                             *)
(***************************************************************************)
\* the locals of a loop before its first read; client_network_loop names
\* received_packet_size packet_size_received
Receiver(remaining_packet_size, received_packet_size, packet) ==
    [remaining_packet_size |-> remaining_packet_size,
     received_packet_size |-> received_packet_size, packet |-> packet]

Channel(handed, sent) == [handed |-> handed, sent |-> sent]

\* a loop with what it has handed and sent, and whether it has returned
Loop(locals, channel, returned) ==
    [locals |-> locals, channel |-> channel, returned |-> returned]

\* payloads are decoded and, if that gives an event, the event is sent
hand_over(channel, packet, decoded) ==
    Channel(Append(channel.handed, packet),
            IF decoded = None THEN channel.sent ELSE Append(channel.sent, decoded[1]))

\* the body of `for byte in bytes' of handle_client
handle_byte(l, byte) ==
    IF ~l.locals.received_packet_size
    THEN IF byte > 0
         THEN [l EXCEPT !.locals = Receiver(byte, TRUE, l.locals.packet)]
         ELSE l
    ELSE LET packet == Append(l.locals.packet, byte)
             remaining_packet_size == l.locals.remaining_packet_size - 1
             decoded == decode_server_bound(packet)
         IN  IF remaining_packet_size # 0
             THEN [l EXCEPT !.locals = Receiver(remaining_packet_size, TRUE, packet)]
             ELSE IF decoded = Some(LeaveCommand)
             THEN Loop(Receiver(0, TRUE, packet), hand_over(l.channel, packet, decoded), TRUE)
             ELSE Loop(Receiver(0, FALSE, <<>>), hand_over(l.channel, packet, decoded), FALSE)

RECURSIVE handle_bytes(_, _)
handle_bytes(l, bytes) ==
    IF bytes = <<>> \/ l.returned THEN l
    ELSE handle_bytes(handle_byte(l, Head(bytes)), Tail(bytes))

\* remaining_packet_size.min(slice.len()), and a loop that takes the slice whole
to_take_all(remaining_packet_size, slice) == Len(slice)

to_take(remaining_packet_size, slice) ==
    IF remaining_packet_size < Len(slice) THEN remaining_packet_size ELSE Len(slice)

\* the body of `while !slice.is_empty()' of client_network_loop
RECURSIVE client_slice(_, _)
client_slice(l, slice) ==
    IF slice = <<>> THEN l
    ELSE IF ~l.locals.received_packet_size
    THEN client_slice(IF Head(slice) > 0
                      THEN [l EXCEPT !.locals = Receiver(Head(slice), TRUE, <<>>)]
                      ELSE l,
                      Tail(slice))
    ELSE LET taken == to_take(l.locals.remaining_packet_size, slice)
             packet == l.locals.packet \o SubSeq(slice, 1, taken)
             remaining_packet_size == l.locals.remaining_packet_size - taken
         IN  client_slice(IF remaining_packet_size = 0
                          THEN Loop(Receiver(0, FALSE, packet),
                                    hand_over(l.channel, packet, decode_client_bound(packet)),
                                    FALSE)
                          ELSE [l EXCEPT !.locals = Receiver(remaining_packet_size, TRUE, packet)],
                          SubSeq(slice, taken + 1, Len(slice)))

\* what a peer writes for a sequence of payloads: the length of each, then
\* the payload; the empty payload is the length byte 0 alone
RECURSIVE Framed(_)
Framed(payloads) ==
    IF payloads = <<>> THEN <<>>
    ELSE <<Len(Head(payloads)) % 256>> \o Head(payloads) \o Framed(Tail(payloads))

(***************************************************************************)
(* handle_message: the GameAction packets and the Leave command            *)
(***************************************************************************)
\* the bytes after the two tag bytes, OR-ed together as a little-endian u32
RECURSIVE money_of_bytes(_, _)
money_of_bytes(bytes, i) ==
    IF bytes = <<>> THEN 0
    ELSE Head(bytes) * (256 ^ i) + money_of_bytes(Tail(bytes), i + 1)

\* match message[1]: the action a packet 1 k ... stands for, "None" for the arm that returns
player_action(message) ==
    CASE message[2] = 0 -> Check
      [] message[2] = 1 -> AddMoney(money_of_bytes(SubSeq(message, 3, Len(message)), 0))
      [] message[2] = 2 -> Fold
      [] OTHER -> [type |-> "None"]

\* the packets 1 0 (check), 1 2 (fold), 1 3 (no such action), and 1 1 followed by
\* no byte, by one byte up to MaxAmount, or by the two bytes 0 1 (the amount 256)
GameActionMessages ==
    {<<1, 0>>, <<1, 2>>, <<1, 3>>, <<1, 1>>, <<1, 1, 0, 1>>}
        \cup {<<1, 1, b>> : b \in 0 .. MaxAmount}

SetGame(g) ==
    /\ players' = g.players
    /\ current_bet' = g.current_bet
    /\ current_phase' = g.current_phase
    /\ current_turn' = g.current_turn
    /\ last_bettor' = g.last_bettor
    /\ public_cards' = g.public_cards

\* one call of Game::advance_game and what it leaves behind, in either build
CallAdvanceGame(action) ==
    \E r \in {advance_game(Game, action, build) : build \in Builds} :
        /\ SetGame(r.game)
        /\ events' = r.events
        /\ status' = r.outcome
        /\ last_call' = [op |-> "advance_game", action |-> action]

Init ==
    /\ \E stacks \in LobbyStacks, deck \in get_shuffled_deck :
           LET g == make_game(stacks, deck)
           IN  /\ players = g.players
               /\ current_bet = g.current_bet
               /\ current_phase = g.current_phase
               /\ current_turn = g.current_turn
               /\ last_bettor = g.last_bettor
               /\ public_cards = g.public_cards
    /\ queued_for_removal = {}
    /\ events = <<>>
    /\ status = "ok"
    /\ last_call = [op |-> "make_game"]
    /\ input = <<>>
    /\ NoConnection
    /\ NoServer
    /\ output = <<>>

\* Game::advance_game, called with the action of a packet 1 k ... of the
\* client whose seat is current_turn
AdvanceGame ==
    /\ status = "ok"
    /\ current_phase < MaxPhase
    /\ \E message \in GameActionMessages :
           LET action == player_action(message)
           IN  IF action.type = "None"
               THEN /\ UNCHANGED <<game_vars, status>>
                    /\ events' = <<>>
                    /\ last_call' = [op |-> "ignored"]
               ELSE CallAdvanceGame(action)
    /\ UNCHANGED <<queued_for_removal, input, output, net_vars, server_vars>>

\* the packet 0 2 of the client at seat p, or its connection dropping, while
\* the hand is in progress: the seat is queued for removal and folded, through
\* advance_game when it is on turn
Leave ==
    /\ status = "ok"
    /\ current_phase < MaxPhase
    /\ \E p \in Ids \ queued_for_removal :
           /\ queued_for_removal' = queued_for_removal \cup {p}
           /\ IF p = current_turn
              THEN CallAdvanceGame(Fold)
              ELSE /\ players' = [players EXCEPT ![p].has_folded = TRUE]
                   /\ UNCHANGED <<current_bet, current_phase, current_turn, last_bettor,
                                  public_cards, status>>
                   /\ events' = <<>>
                   /\ last_call' = [op |-> "leave", id |-> p]
    /\ UNCHANGED <<input, output, net_vars, server_vars>>

Next == AdvanceGame \/ Leave

Spec == Init /\ [][Next]_vars

(***************************************************************************)
(* compute_pots as a function of the contributions: SpecPots applies it    *)
(* once to every table of NumPlayers seats whose contributions are at most *)
(* MaxLevel, folded or not.                                                *)
(***************************************************************************)
InitPots ==
    /\ \E c \in [Ids -> 0 .. MaxLevel], f \in [Ids -> BOOLEAN], deck \in {OrderedDeck} :
           LET g == make_game([i \in Ids |-> MinStack + BigBlind + MaxLevel], deck)
           IN  /\ players = [i \in Ids |->
                                [g.players[i] EXCEPT !.money = @ - c[i],
                                                     !.total_contribution = c[i],
                                                     !.has_folded = f[i]]]
               /\ current_bet = Min({b \in 0 .. MaxLevel : \A i \in Ids : c[i] <= b})
               /\ current_phase = g.current_phase
               /\ current_turn = g.current_turn
               /\ last_bettor = g.last_bettor
               /\ public_cards = g.public_cards
    /\ queued_for_removal = {}
    /\ events = <<>>
    /\ status = "ok"
    /\ last_call = [op |-> "table"]
    /\ input = <<>>
    /\ NoConnection
    /\ NoServer
    /\ output = <<>>

ComputePots ==
    /\ status = "ok"
    /\ last_call.op = "table"
    /\ \E build \in Builds :
           IF compute_pots_overflows(players) /\ build = "debug"
           THEN /\ status' = "panicked"
                /\ events' = <<>>
           ELSE /\ status' = "ok"
                /\ events' = <<EvUpdatePots(compute_pots(players))>>
    /\ last_call' = [op |-> "compute_pots"]
    /\ UNCHANGED <<game_vars, queued_for_removal, input, output, net_vars, server_vars>>

NextPots == ComputePots

SpecPots == InitPots /\ [][NextPots]_vars

(***************************************************************************)
(* advance_game as a function of the Game it is called on: SpecCall        *)
(* applies it once to each table of a bounded set.  Spec reaches only part *)
(* of these tables, because there the seat on turn never changes and no    *)
(* other seat contributes.                                                 *)
(***************************************************************************)
\* what a seat has put in so far in a drawn table
Levels == {0, 1, MaxLevel}

\* A table in the middle of a betting round: the stacks make_game accepts,
\* the forced bets taken, each seat having moved c[i] of its money to its
\* contribution, the seat `folded' (if any) folded, the bet that of the
\* highest contribution.
TableGame(stacks, deck, c, folded, turn, bettor) ==
    LET g == make_game(stacks, deck)
    IN  [g EXCEPT !.players = [i \in Ids |->
                                  [g.players[i] EXCEPT !.money = @ - c[i],
                                                       !.total_contribution = c[i],
                                                       !.has_folded = (folded = i)]],
                  !.current_bet = Min({b \in Levels : \A i \in Ids : c[i] <= b}),
                  !.current_turn = turn,
                  !.last_bettor = bettor]

InitCall ==
    /\ \E stacks \in LobbyStacks, folded \in Ids \cup {NumPlayers}, turn \in Ids, bettor \in Ids :
           \E c \in {d \in [Ids -> Levels] :
                        \A i \in Ids : d[i] <= make_game(stacks, OrderedDeck).players[i].money} :
               LET g == TableGame(stacks, OrderedDeck, c, folded, turn, bettor)
               IN  /\ players = g.players
                   /\ current_bet = g.current_bet
                   /\ current_phase = g.current_phase
                   /\ current_turn = g.current_turn
                   /\ last_bettor = g.last_bettor
                   /\ public_cards = g.public_cards
    /\ queued_for_removal = {}
    /\ events = <<>>
    /\ status = "ok"
    /\ last_call = [op |-> "table"]
    /\ input = <<>>
    /\ NoConnection
    /\ NoServer
    /\ output = <<>>

\* one call on the drawn table
CallOnce == last_call.op = "table" /\ AdvanceGame

NextCall == CallOnce

SpecCall == InitCall /\ [][NextCall]_vars

(***************************************************************************)
(* evaluate_showdown as a function of the Game it is called on:            *)
(* SpecShowdown applies it once to each table of a bounded set, in the     *)
(* phase its assertion asks for.                                           *)
(***************************************************************************)
\* what a seat has put in when the showdown comes
ShowdownLevels == {0, 1, MaxLevel - 1, MaxLevel}

ShowdownStack == MinStack + BigBlind + MaxLevel

InitShowdown ==
    /\ \E deck \in ShowdownDecks, folded \in Ids \cup {NumPlayers}, c \in [Ids -> ShowdownLevels] :
           LET g == [TableGame([i \in Ids |-> ShowdownStack], deck, c, folded, 0, 0)
                        EXCEPT !.current_phase = 4]
           IN  /\ players = g.players
               /\ current_bet = g.current_bet
               /\ current_phase = g.current_phase
               /\ current_turn = g.current_turn
               /\ last_bettor = g.last_bettor
               /\ public_cards = g.public_cards
    /\ queued_for_removal = {}
    /\ events = <<>>
    /\ status = "ok"
    /\ last_call = [op |-> "table"]
    /\ input = <<>>
    /\ NoConnection
    /\ NoServer
    /\ output = <<>>

\* one call of Game::evaluate_showdown, in either build
EvaluateShowdown ==
    /\ last_call.op = "table"
    /\ \E r \in {evaluate_showdown(Game, build) : build \in Builds} :
           /\ SetGame(r.game)
           /\ output' = r.steps
           /\ status' = r.outcome
    /\ last_call' = [op |-> "evaluate_showdown"]
    /\ UNCHANGED <<queued_for_removal, events, input, net_vars, server_vars>>

NextShowdown == EvaluateShowdown

SpecShowdown == InitShowdown /\ [][NextShowdown]_vars

(***************************************************************************)
(* The hand ranking of cards.rs as functions of the cards: SpecHands draws *)
(* seven cards, as a player's two private cards followed by the five       *)
(* public cards, and applies get_best_hand_rank to them, or                *)
(* compare_hand_ranks to the ranks of two of their five-card hands.        *)
(***************************************************************************)
\* there is no Game (Lobby.game is None) where the functions applied take none
NoGame ==
    /\ players = <<>>
    /\ current_bet = 0
    /\ current_phase = 0
    /\ current_turn = 0
    /\ last_bettor = 0
    /\ public_cards = <<>>
    /\ queued_for_removal = {}
    /\ events = <<>>
    /\ status = "ok"

\* the cards the seven are drawn from: the ace, two and six of a second
\* suit, a third two, and the ace to six of one suit
HandDeck ==
    <<Card(12, 1), Card(0, 1), Card(0, 2), Card(4, 1), Card(12, 0),
      Card(0, 0), Card(1, 0), Card(2, 0), Card(3, 0), Card(4, 0)>>

\* the subsequences of k elements of the sequence s
Subsequences(s, k) ==
    LET nth(S, i) == CHOOSE x \in S : Cardinality({y \in S : y < x}) = i - 1
    IN  {Vec([i \in 1 .. k |-> s[nth(S, i)]]) :
            S \in {T \in SUBSET DOMAIN s : Cardinality(T) = k}}

InitHands ==
    /\ NoGame
    /\ NoConnection
    /\ NoServer
    /\ input \in Subsequences(HandDeck, 7)
    /\ output = <<>>
    /\ last_call = [op |-> "cards"]

GetBestHandRank ==
    /\ last_call.op = "cards"
    /\ output' = get_best_hand_rank(input)
    /\ last_call' = [op |-> "get_best_hand_rank"]
    /\ UNCHANGED <<game_vars, queued_for_removal, events, status, input, net_vars, server_vars>>

CompareHandRanks ==
    /\ last_call.op = "cards"
    /\ \E combinations \in {get_all_combinations(input)} :
       \E hand_ranks \in {Vec([n \in DOMAIN combinations |-> rank_hand(combinations[n])])} :
       \E i \in DOMAIN combinations, j \in DOMAIN combinations :
           /\ output' = compare_hand_ranks(hand_ranks[i], hand_ranks[j])
           /\ last_call' = [op |-> "compare_hand_ranks",
                            cards1 |-> combinations[i], cards2 |-> combinations[j],
                            hand1 |-> hand_ranks[i], hand2 |-> hand_ranks[j]]
    /\ UNCHANGED <<game_vars, queued_for_removal, events, status, input, net_vars, server_vars>>

NextHands == GetBestHandRank \/ CompareHandRanks

SpecHands == InitHands /\ [][NextHands]_vars

(***************************************************************************)
(* The codec of protocol.rs: a message of one side is encoded, the bytes   *)
(* reach the decoder of the other side as they are, cut short, or with one *)
(* byte replaced (a peer writes what it likes on the socket), and are      *)
(* decoded.                                                                *)
(***************************************************************************)
\* the longest list of a message
MaxListLen == 2

ListsOf(S, n) == UNION {{Vec(f) : f \in [1 .. k -> S]} : k \in 0 .. n}

\* the orders a HashMap with the keys S may be iterated in
Orders(S) ==
    {Vec(o) : o \in {f \in [1 .. Cardinality(S) -> S] :
                        \A i, j \in DOMAIN f : i # j => f[i] # f[j]}}

\* "abc" and "Bob2"
Usernames == {<<97, 98, 99>>, <<66, 111, 98, 50>>}

\* 0, 0x01020304 and u32::MAX
Moneys == {0, 16909060, -1}

CodecIds == 0 .. MaxListLen - 1

CodecCards == {Card(0, 0), Card(9, 1), Card(12, 3)}

ListedPlayers ==
    {ListedPlayer(TRUE, FALSE, 0, <<97, 98, 99>>),
     ListedPlayer(FALSE, TRUE, 16909060, <<66, 111, 98, 50>>),
     ListedPlayer(FALSE, FALSE, -1, <<97, 98, 99>>)}

CodecPots == {Pot(money, eligible) : money \in {0, 16909060}, eligible \in {<<>>, <<1, 0>>}}

\* hand ranks with five, three and no kickers
CodecHandRanks ==
    {HandRank(HighCard, None, None,
              <<Card(12, 3), Card(9, 1), Card(7, 0), Card(4, 2), Card(0, 0)>>),
     HandRank(OnePair, Some(Card(9, 1)), None, <<Card(12, 3), Card(7, 0), Card(0, 0)>>),
     HandRank(FullHouse, Some(Card(12, 3)), Some(Card(0, 0)), <<>>)}

ShowdownMaps ==
    UNION {[S -> {ShowdownEntry(<<Card(12, 3), Card(0, 0)>>, hand_rank) :
                     hand_rank \in CodecHandRanks}] : S \in SUBSET CodecIds}

WinReasons ==
    {[type |-> "Category"], Primary(Card(12, 3), Card(9, 1)), Secondary(Card(0, 0), Card(9, 1)),
     Kicker(Card(9, 1), Card(0, 0)), NoReason}

CodecSteps ==
    {ShowdownStep(<<0>>, 16909060, 0, 1, <<0, 1>>, reason) : reason \in WinReasons}
        \cup {ShowdownStep(<<1, 0>>, -1, 1, 1, <<1, 0>>, NoReason),
              ShowdownStep(<<>>, 0, 0, 0, <<>>, NoReason)}

Actions == {Check, Fold} \cup {AddMoney(money) : money \in Moneys}

ServerBounds ==
    {Login(username) : username \in Usernames}
        \cup {LeaveCommand, GetPlayerList, Ready(TRUE), Ready(FALSE)}
        \cup {GameAction(action) : action \in Actions}

GameEvents ==
    {EvPlayerAction(id, action) : id \in CodecIds, action \in Actions}
        \cup {EvOwnedMoneyChange(id, money) : id \in CodecIds, money \in Moneys}
        \cup {EvNextPlayer(id) : id \in CodecIds}
        \cup {EvUpdateCurrentBet(money) : money \in Moneys}
        \cup {EvUpdatePots(pots) : pots \in ListsOf(CodecPots, MaxListLen)}
        \cup {EvRevealFlop(<<c, Card(9, 1), Card(12, 3)>>) : c \in CodecCards}
        \cup {EvRevealTurn(c) : c \in CodecCards}
        \cup {EvRevealRiver(c) : c \in CodecCards}
        \cup {GeShowdown(map) : map \in ShowdownMaps}
        \cup {GeShowdownSteps(steps) : steps \in ListsOf(CodecSteps, MaxListLen)}

ClientBounds ==
    {UpdatePlayerList(list) : list \in ListsOf(ListedPlayers, MaxListLen)}
        \cup {YourId(id) : id \in CodecIds}
        \cup {PlayerLeft(username) : username \in Usernames}
        \cup {PlayerJoined(username) : username \in Usernames}
        \cup {GameStarted(<<c, Card(0, 0)>>) : c \in CodecCards}
        \cup {GameEvent(event) : event \in GameEvents}

\* the bytes a peer puts in the place of one byte of a message
OtherBytes == {1, 13, 255}

InitCodec ==
    /\ NoGame
    /\ NoConnection
    /\ NoServer
    /\ input \in [side : {"ServerBound"}, event : ServerBounds]
                    \cup [side : {"ClientBound"}, event : ClientBounds]
    /\ output = <<>>
    /\ last_call = [op |-> "event"]

EncodeServerBound ==
    /\ last_call.op = "event"
    /\ input.side = "ServerBound"
    /\ output' = encode_server_bound(input.event)
    /\ last_call' = [op |-> "encode"]
    /\ UNCHANGED <<game_vars, queued_for_removal, events, status, input, net_vars, server_vars>>

EncodeClientBound ==
    /\ last_call.op = "event"
    /\ input.side = "ClientBound"
    /\ \E order \in Orders(IF input.event.type = "GameEvent" /\ input.event.event.type = "Showdown"
                           THEN DOMAIN input.event.event.map ELSE {}) :
           output' = encode_client_bound(input.event, order)
    /\ last_call' = [op |-> "encode"]
    /\ UNCHANGED <<game_vars, queued_for_removal, events, status, input, net_vars, server_vars>>

\* the peer sends only the first bytes of the message
Truncate ==
    /\ last_call.op = "encode"
    /\ \E len \in 0 .. Len(output) - 1 : output' = SubSeq(output, 1, len)
    /\ last_call' = [op |-> "bytes"]
    /\ UNCHANGED <<game_vars, queued_for_removal, events, status, input, net_vars, server_vars>>

\* the peer sends the message with one byte that is another
Substitute ==
    /\ last_call.op = "encode"
    /\ \E i \in DOMAIN output :
       \E byte \in OtherBytes \ {output[i]} :
           output' = [output EXCEPT ![i] = byte]
    /\ last_call' = [op |-> "bytes"]
    /\ UNCHANGED <<game_vars, queued_for_removal, events, status, input, net_vars, server_vars>>

DecodeServerBound ==
    /\ last_call.op \in {"encode", "bytes"}
    /\ input.side = "ServerBound"
    /\ output' = decode_server_bound(output)
    /\ last_call' = [op |-> "decode_server_bound", msg |-> output,
                     intact |-> last_call.op = "encode"]
    /\ UNCHANGED <<game_vars, queued_for_removal, events, status, input, net_vars, server_vars>>

DecodeClientBound ==
    /\ last_call.op \in {"encode", "bytes"}
    /\ input.side = "ClientBound"
    /\ output' = decode_client_bound(output)
    /\ last_call' = [op |-> "decode_client_bound", msg |-> output,
                     intact |-> last_call.op = "encode"]
    /\ UNCHANGED <<game_vars, queued_for_removal, events, status, input, net_vars, server_vars>>

NextCodec ==
    \/ EncodeServerBound
    \/ EncodeClientBound
    \/ Truncate
    \/ Substitute
    \/ DecodeServerBound
    \/ DecodeClientBound

SpecCodec == InitCodec /\ [][NextCodec]_vars

(***************************************************************************)
(* Frames on a connection: a peer has written the frames of the payloads   *)
(* input, and a loop of networking.rs reads them in reads of any size.     *)
(***************************************************************************)
\* the most frames a peer writes, and the most bytes one read returns (the
\* buffers of networking.rs hold 1024)
MaxFrames == 3
MaxRead == 3

\* payloads of both directions: none (the length byte 0), Leave,
\* GetPlayerList or YourId without its id, Ready(false), one byte of no
\* message, YourId(2)
FramePayloads == {<<>>, <<0, 2>>, <<0, 4>>, <<0, 3, 0>>, <<2>>, <<0, 4, 2>>}

InitFrames ==
    /\ NoGame
    /\ input \in ListsOf(FramePayloads, MaxFrames)
    /\ stream = Framed(input)
    /\ receiver = Receiver(0, FALSE, <<>>)
    /\ NoServer
    /\ output = Channel(<<>>, <<>>)
    /\ last_call \in {[op |-> "handle_client"], [op |-> "client_network_loop"]}

\* one turn of the loop of handle_client in which stream.read gives bytes
HandleClientRead ==
    /\ last_call.op = "handle_client"
    /\ status = "ok"
    /\ \E received_size \in 1 .. MaxRead :
           /\ received_size <= Len(stream)
           /\ \E l \in {handle_bytes(Loop(receiver, output, FALSE),
                                     SubSeq(stream, 1, received_size))} :
                  /\ receiver' = l.locals
                  /\ output' = l.channel
                  /\ status' = IF l.returned THEN "returned" ELSE "ok"
           /\ stream' = SubSeq(stream, received_size + 1, Len(stream))
    /\ UNCHANGED <<game_vars, queued_for_removal, events, last_call, input, server_vars>>

\* stream.read gives Ok(0): the peer has closed the connection
HandleClientClosed ==
    /\ last_call.op = "handle_client"
    /\ status = "ok"
    /\ stream = <<>>
    /\ output' = Channel(output.handed, Append(output.sent, LeaveCommand))
    /\ status' = "returned"
    /\ UNCHANGED <<game_vars, queued_for_removal, events, last_call, input, net_vars, server_vars>>

\* one turn of the loop of client_network_loop
ClientNetworkLoopRead ==
    /\ last_call.op = "client_network_loop"
    /\ status = "ok"
    /\ \E bytes_read \in 1 .. MaxRead :
           /\ bytes_read <= Len(stream)
           /\ \E l \in {client_slice(Loop(receiver, output, FALSE),
                                     SubSeq(stream, 1, bytes_read))} :
                  /\ receiver' = l.locals
                  /\ output' = l.channel
           /\ stream' = SubSeq(stream, bytes_read + 1, Len(stream))
    /\ UNCHANGED <<game_vars, queued_for_removal, events, status, last_call, input,
                   server_vars>>

\* stream.read gives Ok(0): panic!("another error???")
ClientNetworkLoopClosed ==
    /\ last_call.op = "client_network_loop"
    /\ status = "ok"
    /\ stream = <<>>
    /\ status' = "panicked"
    /\ UNCHANGED <<game_vars, queued_for_removal, events, last_call, input, output, net_vars, server_vars>>

NextFrames ==
    \/ HandleClientRead
    \/ HandleClientClosed
    \/ ClientNetworkLoopRead
    \/ ClientNetworkLoopClosed

SpecFrames == InitFrames /\ [][NextFrames]_vars

(***************************************************************************)
(* Sending: one message is encoded and written behind its length byte, by  *)
(* the loop of handle_client (a ClientBound to the client) or by           *)
(* send_event (a ServerBound to the server).                               *)
(***************************************************************************)
\* the most players of the lobby an UpdatePlayerList lists (server.rs admits
\* every Login of a new username: no count is compared)
MaxLobby == 12

\* vec![packet.len() as u8] followed by the packet
length_prefixed(packet) == <<Len(packet) % 256>> \o packet

\* the username of the i-th player of a lobby: len ASCII letters, the first
\* of them distinct for each player
lobby_username(i, len) == [k \in 1 .. len |-> IF k = 1 THEN 96 + i ELSE 120]

\* the list a lobby of n players is sent as
lobby_list(n, len) ==
    Vec([i \in 1 .. n |-> ListedPlayer(FALSE, FALSE, 1000, Vec(lobby_username(i, len)))])

InitSend ==
    /\ NoGame
    /\ NoConnection
    /\ NoServer
    /\ output = <<>>
    /\ \E n \in 0 .. MaxLobby, len \in 3 .. 16 :
           \/ /\ input = UpdatePlayerList(lobby_list(n, len))
              /\ last_call = [op |-> "handle_client"]
           \/ /\ n = 0
              /\ input = Login(Vec(lobby_username(1, len)))
              /\ last_call = [op |-> "send_event"]

\* the loop of handle_client takes an event from client_bound_receiver
HandleClientWrite ==
    /\ last_call.op = "handle_client"
    /\ output = <<>>
    /\ output' = length_prefixed(encode_client_bound(input, <<>>))
    /\ stream' = stream \o output'
    /\ UNCHANGED <<game_vars, queued_for_removal, events, status, last_call, input,
                   receiver, server_vars>>

SendEvent ==
    /\ last_call.op = "send_event"
    /\ output = <<>>
    /\ output' = length_prefixed(encode_server_bound(input))
    /\ stream' = stream \o output'
    /\ UNCHANGED <<game_vars, queued_for_removal, events, status, last_call, input,
                   receiver, server_vars>>

NextSend == HandleClientWrite \/ SendEvent

SpecSend == InitSend /\ [][NextSend]_vars

(***************************************************************************)
(* server.rs: the lobby.  handle_message works on the Lobby and pushes     *)
(* packets on the GameState; the record it is given here holds the fields  *)
(* of the Lobby (game is an Option), the packets pushed during the call,   *)
(* the events of the advance_game call it made and how the call ended.     *)
(***************************************************************************)
User(money, username, ready) == [money |-> money, username |-> username, ready |-> ready]

default_money == 1000

LobbyState(l, game, queued, connections) ==
    [players |-> l.players, id_list |-> l.id_list, game |-> game,
     queued_for_removal |-> queued, broadcast_events |-> <<>>,
     private_events |-> [c \in connections |-> <<>>], events |-> <<>>,
     outcome |-> "ok"]

\* the index of the client in id_list (p.0; p.1 is the client), an Option
find_id_from_client(id_list, client) ==
    IF \E k \in DOMAIN id_list : id_list[k] = client
    THEN Some((CHOOSE k \in DOMAIN id_list :
                   /\ id_list[k] = client
                   /\ \A j \in 1 .. (k - 1) : id_list[j] # client) - 1)
    ELSE None

\* Vec::remove(index), index counted from 0
remove(list, index) ==
    SubSeq(list, 1, index) \o SubSeq(list, index + 2, Len(list))

\* HashMap::remove(key)
remove_key(map, key) == [k \in DOMAIN map \ {key} |-> map[k]]

is_ascii(name) == \A k \in DOMAIN name : name[k] < 128

to_ascii_lowercase(byte) == IF byte >= 65 /\ byte <= 90 THEN byte + 32 ELSE byte

eq_ignore_ascii_case(a, b) ==
    /\ Len(a) = Len(b)
    /\ \A k \in DOMAIN a : to_ascii_lowercase(a[k]) = to_ascii_lowercase(b[k])

\* every connection has its entry in private_events
send_player_list_update(s, private_id) ==
    LET list == <<<<0, 0>>>> \o
                Vec([k \in DOMAIN s.id_list |->
                        LET user == s.players[s.id_list[k]]
                        IN  <<0, 1, bool_byte(user.ready)>> \o to_le_bytes(user.money)
                                \o user.username])
    IN  IF private_id # None
        THEN [s EXCEPT !.private_events[private_id[1]] = @ \o list]
        ELSE [s EXCEPT !.broadcast_events = @ \o list,
                       !.private_events =
                           [c \in DOMAIN @ |->
                               IF find_id_from_client(s.id_list, c) # None
                               THEN Append(@[c], <<0, 4, find_id_from_client(s.id_list, c)[1]>>)
                               ELSE @[c]]]

\* the two assertions of make_game
make_game_panics(stacks) ==
    \/ Cardinality(DOMAIN stacks) < 3
    \/ \E i \in DOMAIN stacks : ~(stacks[i] > MinStack)

check_for_game_start(s, draw) ==
    IF (\A c \in DOMAIN s.players : s.players[c].ready) /\ Len(s.id_list) >= 3
    THEN LET stacks == [i \in 0 .. (Len(s.id_list) - 1) |-> s.players[s.id_list[i + 1]].money]
         IN  IF make_game_panics(stacks)
             THEN [s EXCEPT !.outcome = "panicked"]
             ELSE LET game == make_game(stacks, draw.deck)
                  IN  [s EXCEPT
                          !.game = Some(game),
                          !.broadcast_events = @ \o
                              << <<1, 0>>,
                                 <<0, 2, 1>> \o to_le_bytes(game.players[1].money),
                                 <<0, 2, 2>> \o to_le_bytes(game.players[2].money),
                                 <<1, 2, game.current_turn>> >>,
                          !.private_events =
                              [c \in DOMAIN @ |->
                                  IF find_id_from_client(s.id_list, c) # None
                                  THEN LET player ==
                                               game.players[find_id_from_client(s.id_list, c)[1]]
                                       IN  Append(@[c], <<1, 1, to_byte(player.private_cards[1]),
                                                          to_byte(player.private_cards[2])>>)
                                  ELSE @[c]]]
    ELSE s

\* the packets of an event other than Showdown.  The ids of a pot are pushed
\* in the order of its Vec, written in ascending order here.
event_packets(event) ==
    CASE event.type = "UpdatePots" ->
             <<<<1, 6>>>> \o
             Vec([k \in DOMAIN event.pots |->
                     <<1, 7>> \o to_le_bytes(event.pots[k].money)
                         \o ascending(event.pots[k].eligible_players)])
      [] event.type = "PlayerAction" ->
             (CASE event.action.type = "AddMoney" ->
                       <<<<1, 3, event.id, 1>> \o to_le_bytes(event.action.money)>>
                [] event.action.type = "Check" -> <<<<1, 3, event.id, 0>>>>
                [] event.action.type = "Fold" -> <<<<1, 3, event.id, 2>>>>)
      [] event.type = "OwnedMoneyChange" -> <<<<1, 4, event.id>> \o to_le_bytes(event.money)>>
      [] event.type = "NextPlayer" -> <<<<1, 2, event.id>>>>
      [] event.type = "UpdateCurrentBet" -> <<<<1, 5>> \o to_le_bytes(event.money)>>
      [] event.type = "RevealFlop" ->
             <<<<1, 8, to_byte(event.cards[1]), to_byte(event.cards[2]),
                 to_byte(event.cards[3])>>>>
      [] event.type = "RevealTurn" -> <<<<1, 9, to_byte(event.cards[1])>>>>
      [] event.type = "RevealRiver" -> <<<<1, 10, to_byte(event.cards[1])>>>>

RECURSIVE packets_of(_)
packets_of(evs) ==
    IF evs = <<>> THEN <<>> ELSE event_packets(Head(evs)) \o packets_of(Tail(evs))

\* the packet 1 12 of one entry of the Showdown map
showdown_packet(id, cards, hand_rank) ==
    <<1, 12, id, to_byte(cards[1]), to_byte(cards[2]), hand_rank.category,
      option_card_to_byte(hand_rank.primary), option_card_to_byte(hand_rank.secondary)>>
        \o Vec([k \in DOMAIN hand_rank.kickers |-> to_byte(hand_rank.kickers[k])])

\* evaluate_showdown of server.rs: the packet 1 13 of one ShowdownStep
step_packet(step) ==
    <<1, 13>> \o step.winners \o <<255>> \o to_le_bytes(step.winnings)
        \o <<step.pot_start_index, step.pot_end_index>> \o step.eligible_players \o <<255>>
        \o (CASE step.win_reason.type = "Category" -> <<0>>
              [] step.win_reason.type = "Primary" ->
                     <<1, to_byte(step.win_reason.cards1), to_byte(step.win_reason.cards2)>>
              [] step.win_reason.type = "Secondary" ->
                     <<2, to_byte(step.win_reason.cards1), to_byte(step.win_reason.cards2)>>
              [] step.win_reason.type = "Kicker" ->
                     <<3, to_byte(step.win_reason.cards1), to_byte(step.win_reason.cards2)>>
              [] step.win_reason.type = "None" -> <<255>>)

\* for &p in &lobby.queued_for_removal, in the order the HashSet gives them:
\* Vec::remove panics on an index that is not below the length
RECURSIVE remove_queued(_, _)
remove_queued(r, order) ==
    IF order = <<>> \/ r.outcome # "ok" THEN r
    ELSE LET p == Head(order)
         IN  IF p >= Len(r.id_list)
             THEN [r EXCEPT !.outcome = "panicked"]
             ELSE remove_queued([r EXCEPT !.players = remove_key(@, r.id_list[p + 1]),
                                          !.id_list = remove(@, p),
                                          !.packets = Append(@, <<0, 5, p>>)],
                                Tail(order))

\* "set up for new game": the money of the seats goes back to the users
paid_players(s, game) ==
    [c \in DOMAIN s.players |->
        IF /\ find_id_from_client(s.id_list, c) # None
           /\ find_id_from_client(s.id_list, c)[1] \in DOMAIN game.players
        THEN [s.players[c] EXCEPT !.money =
                 game.players[find_id_from_client(s.id_list, c)[1]].money]
        ELSE s.players[c]]

\* the packets 1 11 and 1 12 of the Showdown map
shown_packets(game) ==
    LET info == get_showdown_info(game)
    IN  <<<<1, 11>>>> \o
        Vec([k \in 1 .. Cardinality(DOMAIN game.players) |->
                showdown_packet(k - 1, game.players[k - 1].private_cards, info[k - 1])])

\* the end of the Showdown arm, removed what remove_queued gave
set_up_for_new_game(s, packets, game, removed) ==
    IF removed.outcome # "ok"
    THEN [s EXCEPT !.game = Some(game), !.players = removed.players,
                   !.id_list = removed.id_list, !.outcome = removed.outcome]
    ELSE send_player_list_update(
             [s EXCEPT !.players = removed.players,
                       !.id_list = removed.id_list,
                       !.game = None,
                       !.queued_for_removal = {},
                       !.broadcast_events = @ \o packets \o removed.packets],
             None)

\* the Showdown arm after evaluate_showdown gave r
evaluated(s, packets, draw, r) ==
    IF r.outcome # "ok"
    THEN [s EXCEPT !.game = Some(r.game), !.outcome = r.outcome]
    ELSE CHOOSE out \in
             {set_up_for_new_game(s, shown, r.game, removed) :
                  shown \in {packets \o shown_packets(s.game[1])
                                 \o Vec([k \in DOMAIN r.steps |-> step_packet(r.steps[k])])},
                  removed \in {remove_queued(
                                   [players |-> paid_players(s, r.game), id_list |-> s.id_list,
                                    packets |-> <<>>, outcome |-> "ok"],
                                   SelectSeq(draw.order,
                                             LAMBDA p : p \in s.queued_for_removal))}} : TRUE

\* the Showdown arm of the wrapper: the packets of the map, evaluate_showdown,
\* and "set up for new game"
resolve_showdown(s, packets, draw) ==
    CHOOSE out \in {evaluated(s, packets, draw, r) :
                        r \in {evaluate_showdown(s.game[1], draw.build)}} : TRUE

\* the wrapper after Game::advance_game gave r
advanced(s, draw, r) ==
    IF r.outcome # "ok"
    THEN [s EXCEPT !.game = Some(r.game), !.outcome = r.outcome]
    ELSE IF HasEvent(r.events, "Showdown")
    THEN resolve_showdown([s EXCEPT !.game = Some(r.game), !.events = r.events],
                          packets_of(SelectSeq(r.events, LAMBDA e : e.type # "Showdown")),
                          draw)
    ELSE [s EXCEPT !.game = Some(r.game), !.events = r.events,
                   !.broadcast_events = @ \o packets_of(r.events)]

\* advance_game of server.rs, the wrapper of Game::advance_game
lobby_advance_game(action, s, draw) ==
    CHOOSE out \in {advanced(s, draw, r) :
                        r \in {advance_game(s.game[1], action, draw.build)}} : TRUE

\* the branch of a client that is not in id_list
login(message, client, s) ==
    IF Len(message) > 2 /\ Len(message) <= 18 /\ message[1] = 0 /\ message[2] = 0
    THEN LET name == SubSeq(message, 3, Len(message))
         IN  IF \/ ~is_ascii(name)
                \/ 32 \in Range(name)
                \/ \E c \in DOMAIN s.players : eq_ignore_ascii_case(s.players[c].username, name)
             THEN s
             ELSE send_player_list_update(
                      [s EXCEPT !.players = [c \in DOMAIN @ \cup {client} |->
                                                IF c = client
                                                THEN User(default_money, name, FALSE)
                                                ELSE @[c]],
                                !.id_list = Append(@, client)],
                      None)
    ELSE s

\* message[1] == 2
leave(client, s, draw) ==
    LET p == find_id_from_client(s.id_list, client)
    IN  IF p # None /\ p[1] \notin s.queued_for_removal
        THEN LET s1 == [s EXCEPT !.broadcast_events = Append(@, <<0, 5, p[1]>>)]
             IN  IF s1.game # None
                 THEN LET s2 == [s1 EXCEPT !.queued_for_removal = @ \cup {p[1]}]
                      IN  IF s2.id_list[s2.game[1].current_turn + 1] = client
                          THEN lobby_advance_game(Fold, s2, draw)
                          ELSE IF p[1] \in DOMAIN s2.game[1].players
                          THEN [s2 EXCEPT !.game[1].players[p[1]].has_folded = TRUE]
                          ELSE [s2 EXCEPT !.outcome = "panicked"]    \* get_mut(..).unwrap()
                 ELSE check_for_game_start(
                          send_player_list_update(
                              [s1 EXCEPT !.players = remove_key(@, client),
                                         !.id_list = remove(@, p[1])],
                              None),
                          draw)
        ELSE s

\* message[1] == 3 with a third byte
ready(message, client, s, draw) ==
    check_for_game_start(
        [s EXCEPT !.players[client].ready = (message[3] # 0),
                  !.broadcast_events =
                      Append(@, <<0, 3, find_id_from_client(s.id_list, client)[1],
                                  bool_byte(message[3] # 0)>>)],
        draw)

\* game_action without the test of server.rs:155-158
game_action_any_seat(message, client, s, draw) ==
    IF s.game = None
    THEN [s EXCEPT !.outcome = "panicked"]
    ELSE IF player_action(message).type = "None"
    THEN s
    ELSE lobby_advance_game(player_action(message), s, draw)

\* message[0] == 1
game_action(message, client, s, draw) ==
    IF s.game = None
    THEN [s EXCEPT !.outcome = "panicked"]    \* lobby.game.as_ref().unwrap()
    ELSE IF s.game[1].current_turn # find_id_from_client(s.id_list, client)[1]
    THEN s
    ELSE IF player_action(message).type = "None"
    THEN s
    ELSE lobby_advance_game(player_action(message), s, draw)

\* handle_message after the arm of 0 4, which comes before the others
dispatch(message, client, s, draw) ==
    IF find_id_from_client(s.id_list, client) = None
    THEN login(message, client, s)
    ELSE IF message[1] = 0
    THEN IF s.game = None /\ message[2] = 1 /\ s.id_list[1] = client
         THEN s
         ELSE IF message[2] = 2
         THEN leave(client, s, draw)
         ELSE IF message[2] = 3 /\ Len(message) >= 3
         THEN ready(message, client, s, draw)
         ELSE s
    ELSE IF message[1] = 1
    THEN game_action(message, client, s, draw)
    ELSE s

handle_message(message, client, s, draw) ==
    IF Len(message) < 2 THEN s
    ELSE CHOOSE out \in
             {dispatch(message, client, s1, draw) :
                  s1 \in {IF message[1] = 0 /\ message[2] = 4
                          THEN send_player_list_update(s, Some(client))
                          ELSE s}} : TRUE

(***************************************************************************)
(* The lobby loop: server_run hands handle_message the messages of the     *)
(* connections one at a time.  SpecLobby leaves out the queues between the *)
(* workers and the loop: a message of any connection may be the next one   *)
(* handled.  output holds the packets the last call pushed.                *)
(***************************************************************************)
\* the connections accepted: main numbers them from 0
Clients == 0 .. (MaxClients - 1)

\* "bob", "cob", "dob", "eob"
name_of(client) == <<98 + client, 111, 98>>

\* the packets of a connection.  Every connection sends its login and 0 2
\* (leave); the connections below NumPlayers also send 0 3 1 (ready) and the
\* game actions check, fold, and add money with no byte (the amount 0) and
\* with the byte 1: the last connection joins and leaves and is never dealt
\* in.  Connection 0 also sends 0 4 (player list), one byte, and 1 3 (no
\* action).
LobbyMessages(client) ==
    {<<0, 0>> \o name_of(client), <<0, 2>>}
        \cup (IF client < NumPlayers
              THEN {<<0, 3, 1>>, <<1, 0>>, <<1, 2>>, <<1, 1>>, <<1, 1, 1>>}
              ELSE {})
        \cup (IF client = 0 THEN {<<0, 4>>, <<0>>, <<1, 3>>} ELSE {})

\* what a call may consult beyond its arguments: the shuffle of make_game,
\* the build (overflow checks or none), and the order in which the HashSet
\* queued_for_removal is iterated
draws(s, message, client) ==
    [deck : IF message \in {<<0, 2>>, <<0, 3, 1>>} THEN get_shuffled_deck ELSE {OrderedDeck},
     build : IF s.game # None /\ (message = <<0, 2>> \/ message[1] = 1)
             THEN Builds ELSE {"debug"},
     order : IF s.game # None /\ (message = <<0, 2>> \/ message[1] = 1)
             THEN Orders(s.queued_for_removal
                             \cup (IF message = <<0, 2>>
                                      /\ find_id_from_client(s.id_list, client) # None
                                   THEN {find_id_from_client(s.id_list, client)[1]}
                                   ELSE {}))
             ELSE {<<>>}]

\* the Lobby and the Game of the variables
CurrentLobby ==
    LobbyState(lobby, IF players = <<>> THEN None ELSE Some(Game), queued_for_removal,
               Clients)

SetLobby(s) ==
    /\ lobby' = [players |-> s.players, id_list |-> s.id_list]
    /\ SetGame(IF s.game = None
               THEN [players |-> <<>>, current_bet |-> 0, current_phase |-> 0,
                     current_turn |-> 0, last_bettor |-> 0, public_cards |-> <<>>]
               ELSE s.game[1])
    /\ queued_for_removal' = s.queued_for_removal
    /\ events' = s.events
    /\ status' = s.outcome
    /\ output' = [broadcast_events |-> s.broadcast_events,
                  private_events |-> s.private_events]

\* Lobby { players: HashMap::new(), id_list: Vec::new(), game: None, .. }
InitLobby ==
    /\ NoGame
    /\ NoConnection
    /\ lobby = [players |-> <<>>, id_list |-> <<>>]
    /\ shared = <<>>
    /\ client_event_indexes = <<>>
    /\ input = <<>>
    /\ output = [broadcast_events |-> <<>>, private_events |-> [c \in Clients |-> <<>>]]
    /\ last_call = [op |-> "server_run"]

\* one call of handle_message by server_run.  An add-money packet is drawn
\* while the seat on turn has put in at most MaxLevel, a ready packet while
\* no hand has changed a stack of the lobby.  A call that returns with the
\* Lobby as it was and no packet pushed leaves every variable as it was.
HandleMessage ==
    /\ status = "ok"
    /\ \E current \in {CurrentLobby}, client \in Clients :
           \E message \in LobbyMessages(client) :
               /\ (Len(message) > 2 /\ message[1] = 1 /\ players # <<>>) =>
                      players[current_turn].total_contribution <= MaxLevel
               /\ message = <<0, 3, 1>> =>
                      \A c \in DOMAIN lobby.players : lobby.players[c].money = default_money
               /\ \E draw \in draws(current, message, client) :
                      \E s \in {handle_message(message, client, current, draw)} :
                          IF s = current
                          THEN UNCHANGED <<game_vars, queued_for_removal, events, status,
                                           last_call, output, lobby>>
                          ELSE /\ SetLobby(s)
                               /\ last_call' = [op |-> "handle_message", client |-> client,
                                                message |-> message]
    /\ UNCHANGED <<input, net_vars, shared, client_event_indexes>>

NextLobby == HandleMessage

SpecLobby == InitLobby /\ [][NextLobby]_vars

(***************************************************************************)
(* Logins: handle_message is applied once to a login packet of connection  *)
(* 2, in a lobby that holds none, one or both of "bob" (connection 0) and  *)
(* "Cat5" (connection 1).                                                  *)
(***************************************************************************)
\* "a", "ab", "abc", "BOB", "bob", "cAT5", "b b", "caf" with an e acute in
\* UTF-8, the byte 233 alone, and names of 15, 16 and 17 letters
LoginNames ==
    {<<97>>, <<97, 98>>, <<97, 98, 99>>, <<66, 79, 66>>, <<98, 111, 98>>,
     <<99, 65, 84, 53>>, <<98, 32, 98>>, <<99, 97, 102, 195, 169>>, <<233>>}
        \cup {[k \in 1 .. n |-> 120] : n \in 15 .. 17}

\* the login packets, one with no name, and a ready packet
LoginMessages == {<<0, 0>> \o Vec(name) : name \in LoginNames} \cup {<<0, 0>>, <<0, 3, 1>>}

LoginLobbies ==
    {[players |-> [c \in Range(id_list) |->
                      User(default_money, IF c = 0 THEN <<98, 111, 98>> ELSE <<67, 97, 116, 53>>,
                           c \in readied)],
      id_list |-> id_list] :
         id_list \in {<<>>, <<0>>, <<1>>, <<0, 1>>, <<1, 0>>}, readied \in SUBSET {0, 1}}

InitLogin ==
    /\ NoGame
    /\ NoConnection
    /\ lobby \in LoginLobbies
    /\ shared = <<>>
    /\ client_event_indexes = <<>>
    /\ \E message \in LoginMessages :
           input = [lobby |-> lobby, client |-> 2, message |-> message]
    /\ output = <<>>
    /\ last_call = [op |-> "server_run"]

HandleLogin ==
    /\ last_call.op = "server_run"
    /\ \E s \in {handle_message(input.message, input.client, CurrentLobby,
                                [deck |-> OrderedDeck, build |-> "debug", order |-> <<>>])} :
           SetLobby(s)
    /\ last_call' = [op |-> "handle_message", client |-> input.client,
                     message |-> input.message]
    /\ UNCHANGED <<input, net_vars, shared, client_event_indexes>>

NextLogin == HandleLogin

SpecLogin == InitLogin /\ [][NextLogin]_vars

(***************************************************************************)
(* Starting a hand: handle_message is applied once to the ready packet of  *)
(* connection 0, in a lobby of two or three players whose stacks are       *)
(* around the least stack make_game takes.                                 *)
(***************************************************************************)
\* the stacks a hand may have left a player with
StartStacks == {MinStack - 1, MinStack, MinStack + 1, default_money}

StartLobbies ==
    {[players |-> [c \in 0 .. (n - 1) |-> User(stacks[c], name_of(c), c \in readied)],
      id_list |-> [k \in 1 .. n |-> k - 1]] :
         n \in {NumPlayers - 1, NumPlayers}, stacks \in [0 .. (NumPlayers - 1) -> StartStacks],
         readied \in SUBSET (1 .. (NumPlayers - 1))}

InitStart ==
    /\ NoGame
    /\ NoConnection
    /\ lobby \in StartLobbies
    /\ shared = <<>>
    /\ client_event_indexes = <<>>
    /\ input = [lobby |-> lobby, client |-> 0, message |-> <<0, 3, 1>>]
    /\ output = <<>>
    /\ last_call = [op |-> "server_run"]

HandleReady ==
    /\ last_call.op = "server_run"
    /\ \E deck \in get_shuffled_deck :
           \E s \in {handle_message(input.message, input.client, CurrentLobby,
                                    [deck |-> deck, build |-> "debug", order |-> <<>>])} :
               SetLobby(s)
    /\ last_call' = [op |-> "handle_message", client |-> input.client,
                     message |-> input.message]
    /\ UNCHANGED <<input, net_vars, shared, client_event_indexes>>

NextStart == HandleReady

SpecStart == InitStart /\ [][NextStart]_vars

(***************************************************************************)
(* server.rs: the workers and the lobby loop.  main has accepted the       *)
(* connections and every worker has registered its queues; the peer of     *)
(* connection c writes the frames of the payloads input[c].  A worker      *)
(* (handle_client) writes the pending events, reads, and pushes each       *)
(* complete packet on client_events; server_run handles, in one pass under *)
(* the mutex, the packets that are new since its last pass.  output holds  *)
(* the packets handle_message was called with, for each connection.        *)
(***************************************************************************)
MaxConnections == 2

Connections == 0 .. (MaxConnections - 1)

\* the payloads a peer sends: its login, leave, check, ready
ServerPayloads(c) == {<<0, 0>> \o name_of(c), <<0, 2>>, <<1, 0>>, <<0, 3, 1>>}

\* connection 0 sends up to MaxListLen of them, each other one its login or
\* nothing
ServerScripts ==
    {[c \in Connections |->
         IF c = 0 THEN script ELSE IF c \in logging_in THEN <<<<0, 0>> \o name_of(c)>> ELSE <<>>] :
         script \in ListsOf(ServerPayloads(0), MaxListLen),
         logging_in \in SUBSET (Connections \ {0})}

\* the locals of handle_client; state says whether it has returned
Worker(remaining_packet_size, received_packet_size, packet, broadcast_event_index,
       private_event_index, state) ==
    [remaining_packet_size |-> remaining_packet_size,
     received_packet_size |-> received_packet_size, packet |-> packet,
     broadcast_event_index |-> broadcast_event_index,
     private_event_index |-> private_event_index, state |-> state]

\* for byte in bytes: w holds the locals, pushed the packets pushed on
\* client_events
RECURSIVE push_bytes(_, _, _)
push_bytes(w, pushed, bytes) ==
    IF bytes = <<>> THEN [worker |-> w, pushed |-> pushed]
    ELSE LET byte == Head(bytes)
         IN  IF ~w.received_packet_size
             THEN push_bytes(IF byte > 0
                             THEN [w EXCEPT !.remaining_packet_size = byte,
                                            !.received_packet_size = TRUE]
                             ELSE w,
                             pushed, Tail(bytes))
             ELSE IF w.remaining_packet_size - 1 = 0
             THEN push_bytes([w EXCEPT !.remaining_packet_size = 0,
                                       !.received_packet_size = FALSE,
                                       !.packet = <<>>],
                             Append(pushed, Append(w.packet, byte)), Tail(bytes))
             ELSE push_bytes([w EXCEPT !.remaining_packet_size = @ - 1,
                                       !.packet = Append(@, byte)],
                             pushed, Tail(bytes))

\* send_disconnect_message
send_disconnect_message(id, state) ==
    [state EXCEPT !.client_events[id] = Append(@, <<0, 2>>)]

\* for message in client_messages.iter().skip(index)
RECURSIVE run_messages(_, _, _, _)
run_messages(s, client, messages, draw) ==
    IF messages = <<>> \/ s.outcome # "ok" THEN s
    ELSE run_messages([handle_message(Head(messages), client, s, draw)
                          EXCEPT !.handled[client] = Append(@, Head(messages))],
                      client, Tail(messages), draw)

\* for (client_id, client_messages) in client_events, in the order the
\* HashMap gives them
RECURSIVE run_clients(_, _, _, _)
run_clients(s, order, client_events, draw) ==
    IF order = <<>> \/ s.outcome # "ok" THEN s
    ELSE CHOOSE out \in
             {IF s1.outcome # "ok" THEN s1
              ELSE run_clients([s1 EXCEPT !.indexes =
                                   [c \in DOMAIN @ \cup {client} |->
                                       IF c = client THEN Len(client_events[client])
                                       ELSE @[c]]],
                               Tail(order), client_events, draw) :
                  client \in {Head(order)},
                  s1 \in {run_messages(
                              s, Head(order),
                              SubSeq(client_events[Head(order)],
                                     (IF Head(order) \in DOMAIN s.indexes
                                      THEN s.indexes[Head(order)] ELSE 0) + 1,
                                     Len(client_events[Head(order)])),
                              draw)}} : TRUE

InitServer ==
    /\ NoGame
    /\ lobby = [players |-> <<>>, id_list |-> <<>>]
    /\ input \in ServerScripts
    /\ stream = [c \in Connections |-> Framed(input[c])]
    /\ receiver = [c \in Connections |-> Worker(0, FALSE, <<>>, 0, 0, "running")]
    /\ shared = [broadcast_events |-> <<>>,
                 private_events |-> [c \in Connections |-> <<>>],
                 client_events |-> [c \in Connections |-> <<>>]]
    /\ client_event_indexes = <<>>
    /\ output = [c \in Connections |-> <<>>]
    /\ last_call = [op |-> "main"]

Running(c) == receiver[c].state = "running" /\ status = "ok"

\* the events pushed since the worker last wrote
Pending(c) ==
    \/ receiver[c].broadcast_event_index < Len(shared.broadcast_events)
    \/ receiver[c].private_event_index < Len(shared.private_events[c])

\* the first block of the loop of handle_client, every write_all Ok
WorkerWrite ==
    \E c \in Connections :
        /\ Running(c)
        /\ Pending(c)
        /\ receiver' = [receiver EXCEPT
                           ![c].broadcast_event_index = Len(shared.broadcast_events),
                           ![c].private_event_index = Len(shared.private_events[c])]
        /\ last_call' = [op |-> "write", client |-> c]
        /\ UNCHANGED <<game_vars, queued_for_removal, events, status, input, output, stream,
                       server_vars>>

\* the same block, a write_all Err
WorkerWriteFails ==
    \E c \in Connections :
        /\ Running(c)
        /\ Pending(c)
        /\ shared' = send_disconnect_message(c, shared)
        /\ receiver' = [receiver EXCEPT ![c].state = "returned"]
        /\ last_call' = [op |-> "write failed", client |-> c]
        /\ UNCHANGED <<game_vars, queued_for_removal, events, status, input, output, stream,
                       lobby, client_event_indexes>>

\* stream.read gives Ok(n): each packet completed is pushed under the mutex.
\* A frame is three bytes or more, so a read of up to three bytes completes
\* at most one packet.
WorkerRead ==
    \E c \in Connections :
        /\ Running(c)
        /\ \E received_size \in 1 .. MaxRead :
               /\ received_size <= Len(stream[c])
               /\ \E r \in {push_bytes(receiver[c], <<>>, SubSeq(stream[c], 1, received_size))} :
                      /\ receiver' = [receiver EXCEPT ![c] = r.worker]
                      /\ shared' = [shared EXCEPT !.client_events[c] = @ \o r.pushed]
               /\ stream' = [stream EXCEPT ![c] = SubSeq(@, received_size + 1, Len(@))]
        /\ last_call' = [op |-> "read", client |-> c]
        /\ UNCHANGED <<game_vars, queued_for_removal, events, status, input, output, lobby,
                       client_event_indexes>>

\* stream.read gives Ok(0) or an error that is not WouldBlock
WorkerClosed ==
    \E c \in Connections :
        /\ Running(c)
        /\ stream[c] = <<>>
        /\ shared' = send_disconnect_message(c, shared)
        /\ receiver' = [receiver EXCEPT ![c].state = "returned"]
        /\ last_call' = [op |-> "closed", client |-> c]
        /\ UNCHANGED <<game_vars, queued_for_removal, events, status, input, output, stream,
                       lobby, client_event_indexes>>

\* shared.lock().unwrap() on the mutex the thread of server_run held when it
\* panicked
WorkerPoisoned ==
    \E c \in Connections :
        /\ receiver[c].state = "running"
        /\ status = "panicked"
        /\ receiver' = [receiver EXCEPT ![c].state = "panicked"]
        /\ last_call' = [op |-> "poisoned", client |-> c]
        /\ UNCHANGED <<game_vars, queued_for_removal, events, status, input, output, stream,
                       server_vars>>

\* one turn of the loop of server_run
ServerRun ==
    /\ status = "ok"
    /\ \E order \in Orders(Connections), deck \in get_shuffled_deck :
           \E s \in {run_clients(
                         [players |-> lobby.players, id_list |-> lobby.id_list,
                          game |-> IF players = <<>> THEN None ELSE Some(Game),
                          queued_for_removal |-> queued_for_removal,
                          broadcast_events |-> shared.broadcast_events,
                          private_events |-> shared.private_events,
                          events |-> events, outcome |-> "ok",
                          handled |-> output, indexes |-> client_event_indexes],
                         order, shared.client_events,
                         [deck |-> deck, build |-> "debug", order |-> <<>>])} :
               /\ lobby' = [players |-> s.players, id_list |-> s.id_list]
               /\ SetGame(IF s.game = None
                          THEN [players |-> <<>>, current_bet |-> 0, current_phase |-> 0,
                                current_turn |-> 0, last_bettor |-> 0, public_cards |-> <<>>]
                          ELSE s.game[1])
               /\ queued_for_removal' = s.queued_for_removal
               /\ events' = s.events
               /\ status' = s.outcome
               /\ shared' = [shared EXCEPT !.broadcast_events = s.broadcast_events,
                                           !.private_events = s.private_events]
               /\ client_event_indexes' = s.indexes
               /\ output' = s.handled
    /\ last_call' = [op |-> "server_run"]
    /\ UNCHANGED <<input, net_vars>>

NextServer ==
    \/ WorkerWrite
    \/ WorkerWriteFails
    \/ WorkerRead
    \/ WorkerClosed
    \/ WorkerPoisoned
    \/ ServerRun

SpecServer == InitServer /\ [][NextServer]_vars

(***************************************************************************)
(* A hand in which nobody raises: from make_game on, the seat on turn      *)
(* calls when the bet is above its contribution and checks otherwise, as   *)
(* gametest.rs plays it.  input holds the stacks the players were seated   *)
(* with.  The players keep acting while the hand is on.                    *)
(***************************************************************************)
\* the stacks of a seat: the least make_game takes, the largest of the other
\* tables, and Lobby.default_money
PassiveStacks == {MinStack, MaxStack, default_money}

InitPassive ==
    /\ input \in [Ids -> PassiveStacks]
    /\ \E deck \in get_shuffled_deck \cup ShowdownDecks :
           \E g \in {make_game(input, deck)} :
               /\ players = g.players
               /\ current_bet = g.current_bet
               /\ current_phase = g.current_phase
               /\ current_turn = g.current_turn
               /\ last_bettor = g.last_bettor
               /\ public_cards = g.public_cards
    /\ queued_for_removal = {}
    /\ events = <<>>
    /\ status = "ok"
    /\ last_call = [op |-> "make_game"]
    /\ NoConnection
    /\ NoServer
    /\ output = <<>>

\* the action of a player that never raises
call_or_check(g) ==
    IF g.current_bet > g.players[g.current_turn].total_contribution
    THEN AddMoney(g.current_bet - g.players[g.current_turn].total_contribution)
    ELSE Check

\* Game::advance_game with that action, until a Showdown event is returned
CallOrCheck ==
    /\ status = "ok"
    /\ ~HasEvent(events, "Showdown")
    /\ CallAdvanceGame(call_or_check(Game))
    /\ UNCHANGED <<queued_for_removal, input, output, net_vars, server_vars>>

NextPassive == CallOrCheck

SpecPassive == InitPassive /\ [][NextPassive]_vars /\ WF_vars(CallOrCheck)

(***************************************************************************)
(* A game action from any connection: handle_message is applied once to a  *)
(* packet 1 k ... of a connection, in a lobby whose hand has just been     *)
(* dealt.  Some seats off turn may have left, and one more client may have *)
(* logged in since the hand started.                                       *)
(***************************************************************************)
\* the Lobby check_for_game_start leaves with n players, m clients logged in
SeatedLobby(n, m) ==
    [players |-> [c \in 0 .. (m - 1) |-> User(default_money, name_of(c), c < n)],
     id_list |-> Vec([k \in 1 .. m |-> k - 1])]

\* the Game of that hand, the seats of `left' folded by their leaving
DealtGame(n, deck, left) ==
    LET g == make_game([i \in 0 .. (n - 1) |-> default_money], deck)
    IN  [g EXCEPT !.players = [i \in DOMAIN @ |->
                                  [@[i] EXCEPT !.has_folded = (i \in left)]]]

InitTurn ==
    /\ \E n \in 3 .. MaxClients, deck \in get_shuffled_deck :
           \E m \in {k \in {n, n + 1} : k <= MaxClients} :
               \E g \in {DealtGame(n, deck, left) :
                             left \in SUBSET (0 .. (n - 1))} :
                   /\ ~g.players[g.current_turn].has_folded
                   /\ lobby = SeatedLobby(n, m)
                   /\ players = g.players
                   /\ current_bet = g.current_bet
                   /\ current_phase = g.current_phase
                   /\ current_turn = g.current_turn
                   /\ last_bettor = g.last_bettor
                   /\ public_cards = g.public_cards
                   /\ queued_for_removal = {i \in DOMAIN g.players : g.players[i].has_folded}
    /\ input \in [client : Clients, message : GameActionMessages]
    /\ events = <<>>
    /\ status = "ok"
    /\ NoConnection
    /\ shared = <<>>
    /\ client_event_indexes = <<>>
    /\ output = [broadcast_events |-> <<>>, private_events |-> [c \in Clients |-> <<>>]]
    /\ last_call = [op |-> "server_run"]

\* one call of handle_message with the packet drawn
HandleAction ==
    /\ last_call.op = "server_run"
    /\ \E current \in {CurrentLobby} :
           \E draw \in draws(current, input.message, input.client) :
               \E s \in {handle_message(input.message, input.client, current, draw)} :
                   SetLobby(s)
    /\ last_call' = [op |-> "handle_message", client |-> input.client,
                     message |-> input.message]
    /\ UNCHANGED <<input, net_vars, shared, client_event_indexes>>

NextTurn == HandleAction

SpecTurn == InitTurn /\ [][NextTurn]_vars

(***************************************************************************)
(* Claims                                                                  *)
(***************************************************************************)
\* the last operation was a call of advance_game that returned
Returned == last_call.op = "advance_game" /\ status = "ok"
Accepted == Returned /\ events # <<>>
Rejected == Returned /\ events = <<>>

\* C1: for every contribution profile, the money of the pots compute_pots
\* returns sums to the sum of the players' total_contribution
C1_PotsSumToContributions ==
    (last_call.op = "compute_pots" /\ status = "ok")
        => SumPots(events[1].pots) = SumContributions(players, Ids)

\* the step is a call of advance_game with the input `action'
Calls(action) == last_call' = [op |-> "advance_game", action |-> action]
CallsAddMoney == last_call'.op = "advance_game" /\ last_call'.action.type = "AddMoney"
\* the player the call acts for, before the call
Actor == players[current_turn]

\* C2: a call that returns without events changed no field of the Game, and
\* the illegal calls (a Check below the bet, an AddMoney that stays below the
\* bet, a raise of more than the stack) are such calls
C2_RejectedIsNoOp ==
    [][(last_call'.op = "advance_game" /\ status' = "ok") =>
          /\ (events' = <<>> => UNCHANGED game_vars)
          /\ (Calls(Check) /\ current_bet > Actor.total_contribution
                 => events' = <<>>)
          /\ (CallsAddMoney /\ Actor.total_contribution + last_call'.action.money < current_bet
                 => events' = <<>>)
          /\ (CallsAddMoney /\ last_call'.action.money > Actor.money
                 /\ Actor.total_contribution + last_call'.action.money > current_bet
                 => events' = <<>>)]_vars

C2_Witness ==
    /\ Rejected
    /\ last_call.action.type = "AddMoney"
    /\ players[current_turn].total_contribution + last_call.action.money < current_bet

\* C3: AddMoney(a) with a the whole remaining stack is accepted even when
\* total_contribution + a is below current_bet; then the money is 0, the
\* contribution grew by a and current_bet did not decrease
C3_AllInBelowBetAccepted ==
    [][(CallsAddMoney /\ last_call'.action.money > 0
            /\ last_call'.action.money = Actor.money
            /\ Actor.total_contribution + last_call'.action.money < current_bet) =>
          /\ status' = "ok"
          /\ events' # <<>>
          /\ players'[current_turn].money = 0
          /\ players'[current_turn].total_contribution
                 = Actor.total_contribution + last_call'.action.money
          /\ current_bet' >= current_bet]_vars

\* C4: AddMoney(a) with a above the remaining money is rejected as a no-op,
\* whatever the bet and the contribution
C4_AboveStackRejected ==
    [][(CallsAddMoney /\ last_call'.action.money > Actor.money) =>
          /\ status' = "ok"
          /\ events' = <<>>
          /\ UNCHANGED game_vars]_vars

\* C5: AddMoney(0) returns normally, changes nothing and emits no event
C5_AddMoneyZeroIsNoOp ==
    [][Calls(AddMoney(0)) =>
          /\ status' = "ok"
          /\ events' = <<>>
          /\ UNCHANGED game_vars]_vars

\* C6: a Check is accepted if and only if the contribution of the player on
\* turn equals current_bet or that player has no money left
C6_CheckAcceptedIff ==
    [][Calls(Check) =>
          ((status' = "ok" /\ events' = <<>>)
              <=> ~(Actor.total_contribution = current_bet \/ Actor.money = 0))]_vars

\* C7: after an accepted action that triggers no showdown, current_turn is the
\* first seat after the actor, in cyclic order, that has not folded and has
\* money, and NextPlayer carries that seat
C7_TurnPasses ==
    [][(last_call'.op = "advance_game" /\ status' = "ok" /\ events' # <<>>
            /\ ~HasEvent(events', "Showdown")) =>
          /\ current_turn' = next_turn(players', current_turn)
          /\ EventsOf(events', "NextPlayer") = <<EvNextPlayer(current_turn')>>]_vars

\* C8: after an accepted action that leaves exactly one player who has not
\* folded and has money, the same call emits Showdown and passes the turn to
\* nobody
C8_OneActiveShowdown ==
    (Accepted /\ Cardinality(ActivePlayers(players)) = 1)
        => /\ HasEvent(events, "Showdown")
           /\ ~HasEvent(events, "NextPlayer")
           /\ events[Len(events)].type = "Showdown"

C8_Witness ==
    /\ Accepted
    /\ Cardinality(ActivePlayers(players)) = 1
    /\ HasEvent(events, "Showdown")
    /\ current_phase \in 1 .. 3

\* C9: when a round closes the phase advances by one and the event is the one
\* of the phase being left: RevealFlop with public cards 0..2 on leaving
\* preflop, RevealTurn with card 3 on leaving the flop, RevealRiver with card 4
\* on leaving the turn, Showdown on leaving the river
C9_RevealMatchesPhaseLeft ==
    [][(current_phase' # current_phase) =>
          /\ current_phase' = current_phase + 1
          /\ (current_phase = 0 =>
                 EventsOf(events', "RevealFlop") = <<EvRevealFlop(SubSeq(public_cards, 1, 3))>>)
          /\ (current_phase = 1 =>
                 EventsOf(events', "RevealTurn") = <<EvRevealTurn(public_cards[4])>>)
          /\ (current_phase = 2 =>
                 EventsOf(events', "RevealRiver") = <<EvRevealRiver(public_cards[5])>>)
          /\ (current_phase = 3 => HasEvent(events', "Showdown"))]_vars

\* C10: once a call has emitted Showdown, a further call of advance_game is
\* rejected: no state change and no event
C10_ShowdownTerminal ==
    [][(HasEvent(events, "Showdown") /\ last_call'.op = "advance_game") =>
          /\ status' = "ok"
          /\ events' = <<>>
          /\ UNCHANGED game_vars]_vars

\* C14: the HandRank get_best_hand_rank returns for seven cards is the rank of
\* one of their 21 five-card hands, the one it returns with it, and it is not
\* below the rank of any of the 21
C14_BestHandRankIsMaximal ==
    last_call.op = "get_best_hand_rank" =>
        \E hands \in {Subsequences(input, 5)} :
            /\ Cardinality(hands) = 21
            /\ output[1] \in hands
            /\ output[2] = rank_hand(output[1])
            /\ \A hand \in hands : hand_rank_cmp(output[2], rank_hand(hand)) # Less

C14_Witness ==
    /\ last_call.op = "get_best_hand_rank"
    /\ output[1] = SubSeq(input, 3, 7)
    /\ \A hand \in Subsequences(input, 5) \ {output[1]} :
           hand_rank_cmp(output[2], rank_hand(hand)) = Greater

\* the keys of a HandRank in the order of the comparison: the category, the
\* lead card of primary, the lead card of secondary, the kickers
Lead(cards) == IF cards = <<>> THEN <<-1>> ELSE <<cards[1].rank>>
Keys(hand) == <<hand.category>> \o Lead(hand.primary) \o Lead(hand.secondary) \o Ranks(hand.kickers)
FactorOfKey(d, hand1, hand2) ==
    CASE d = 1 -> Category
      [] d = 2 -> Primary(hand1.primary, hand2.primary)
      [] d = 3 -> Secondary(hand1.secondary, hand2.secondary)
      [] OTHER -> Kicker(hand1.kickers, hand2.kickers)
SameRanks(hand1, hand2) ==
    /\ hand1.category = hand2.category
    /\ Ranks(hand1.primary) = Ranks(hand2.primary)
    /\ Ranks(hand1.secondary) = Ranks(hand2.secondary)
    /\ Ranks(hand1.kickers) = Ranks(hand2.kickers)

\* C15: compare_hand_ranks returns the order of the first key in which the two
\* hands differ and names that key; it returns (Equal, Tie) exactly when the
\* category and the rank sequences of primary, secondary and kickers are
\* equal; comparing the hands the other way round gives the reverse order
C15_CompareByFirstDifference ==
    last_call.op = "compare_hand_ranks" =>
        LET hand1 == last_call.hand1
            hand2 == last_call.hand2
            keys1 == Keys(hand1)
            keys2 == Keys(hand2)
            differing == {d \in 1 .. Min({Len(keys1), Len(keys2)}) : keys1[d] # keys2[d]}
        IN  /\ differing # {} =>
                   output = <<cmp(keys1[Min(differing)], keys2[Min(differing)]),
                              FactorOfKey(Min(differing), hand1, hand2)>>
            /\ (output = <<Equal, Tie>>) <=> SameRanks(hand1, hand2)
            /\ (output[1] = Equal) <=> (output[2] = Tie)
            /\ compare_hand_ranks(hand2, hand1)[1] = reverse(output[1])

C15_Witness ==
    /\ last_call.op = "compare_hand_ranks"
    /\ output = <<Equal, Tie>>
    /\ last_call.hand1 # last_call.hand2
    /\ last_call.hand1.category = TwoPair

IsWheel(cards) == {cards[i].rank : i \in DOMAIN cards} = {0, 1, 2, 3, 12}

\* C16: a wheel is a straight (or straight flush) that is below every other
\* straight (or straight flush) and equal to another wheel
C16_WheelIsLowestStraight ==
    (/\ last_call.op = "compare_hand_ranks"
     /\ IsWheel(last_call.cards1)
     /\ last_call.hand2.category = last_call.hand1.category) =>
        /\ last_call.hand1.category \in {Straight, StraightFlush}
        /\ output[1] = IF IsWheel(last_call.cards2) THEN Equal ELSE Less

\* the last operation was a call of evaluate_showdown that returned
ShowdownReturned == last_call.op = "evaluate_showdown" /\ status = "ok"
IsAscending(s) == \A i \in 1 .. (Len(s) - 1) : s[i] < s[i + 1]

\* the players eligible for pot k (from 1): those that have not folded and
\* have put in at least the k-th lowest of the contributions above 0
PotLevel(ps, k) ==
    LET values == {ps[i].total_contribution : i \in DOMAIN ps} \ {0}
    IN  CHOOSE v \in values : Cardinality({u \in values : u < v}) = k - 1
EligibleFor(ps, k) ==
    {i \in DOMAIN ps : ~ps[i].has_folded /\ ps[i].total_contribution >= PotLevel(ps, k)}
BestOf(info, ids) ==
    {i \in ids : \A j \in ids : hand_rank_cmp(info[i], info[j]) # Less}

\* C11: the winners of every ShowdownStep are the players eligible for the
\* step's first pot whose HandRank no eligible player's rank is above, in
\* ascending order of id, and none of them has folded
C11_WinnersAreBestEligible ==
    ShowdownReturned =>
        \A n \in DOMAIN output :
            /\ Range(output[n].winners)
                   = BestOf(get_showdown_info(Game),
                            EligibleFor(players, output[n].pot_start_index + 1))
            /\ IsAscending(output[n].winners)
            /\ \A w \in Range(output[n].winners) : ~players[w].has_folded

C11_Witness ==
    /\ ShowdownReturned
    /\ \E n \in DOMAIN output, f \in Ids :
           /\ Len(output[n].winners) = 2
           /\ players[f].has_folded
           /\ players[f].total_contribution >= PotLevel(players, output[n].pot_start_index + 1)
           /\ hand_rank_cmp(get_showdown_info(Game)[f],
                            get_showdown_info(Game)[output[n].winners[1]]) = Greater

\* what the step gives to player i: floor(W / k), and one more for the first
\* W mod k of its k winners; nothing for a player that is not a winner
ShareOf(step, i) ==
    LET k == Len(step.winners)
        positions == {w \in 1 .. k : step.winners[w] = i}
    IN  IF positions = {} THEN 0
        ELSE IF Min(positions) <= u32_rem(step.winnings, k)
             THEN wrapping_add(u32_div(step.winnings, k), 1)
             ELSE u32_div(step.winnings, k)

\* the stack `before' becomes `after' by growing by the player's share of
\* each of the steps in turn
RECURSIVE GrowsByShares(_, _, _, _)
GrowsByShares(before, after, steps, i) ==
    IF steps = <<>> THEN after = before
    ELSE /\ ~add_overflows(before, ShareOf(Head(steps), i))
         /\ GrowsByShares(wrapping_add(before, ShareOf(Head(steps), i)), after, Tail(steps), i)

\* C12: evaluate_showdown adds to the stack of every winner of a step with
\* winnings W and k winners floor(W / k), and one more for the first W mod k
\* winners in the order of the step, and changes no stack otherwise
C12_WinningsSplit ==
    [][(last_call'.op = "evaluate_showdown" /\ status' = "ok") =>
          \A i \in Ids : GrowsByShares(players[i].money, players'[i].money, output', i)]_vars

\* C13: a ShowdownStep has a win_reason exactly when its winners are not all
\* of its eligible players
C13_WinReasonIffStrictSubset ==
    ShowdownReturned =>
        \A n \in DOMAIN output :
            (output[n].win_reason # NoReason)
                <=> (Range(output[n].winners) # Range(output[n].eligible_players))

\* the last operation decoded the bytes an encoder gave for the message input
DecodedIntact ==
    /\ last_call.op \in {"decode_server_bound", "decode_client_bound"}
    /\ last_call.intact

\* C17: decoding the encoding of a ServerBound command or of a ClientBound
\* event gives that command or event back, whatever the variant, the length
\* of its lists and its win_reason
C17_RoundTrip == DecodedIntact => output = Some(input.event)

C17_Witness ==
    /\ DecodedIntact
    /\ input.event.type = "GameEvent"
    /\ input.event.event.type = "ShowdownSteps"
    /\ Len(input.event.event.steps) >= 2
    /\ input.event.event.steps[1].win_reason = NoReason
    /\ input.event.event.steps[2].win_reason.type = "Kicker"
    /\ output = Some(input.event)

\* the pots of an UpdatePots message run from idx on, and the eligible
\* players of the last of them reach the end of msg without the byte 255
RECURSIVE LastListTruncated(_, _)
LastListTruncated(msg, idx) ==
    /\ idx + 4 <= Len(msg)
    /\ LET end == list_end(msg, idx + 4)
       IN  IF end >= Len(msg) THEN TRUE ELSE LastListTruncated(msg, end + 1)

DecodedTruncatedPots ==
    /\ last_call.op = "decode_client_bound"
    /\ Len(last_call.msg) >= 2
    /\ SubSeq(last_call.msg, 1, 2) = <<1, 6>>
    /\ LastListTruncated(last_call.msg, 2)

\* C18: decoding an UpdatePots message whose last list of eligible players
\* ends without the terminator 255 is a failure: no pot list, no panic
C18_TruncatedPotsRejected == DecodedTruncatedPots => output = None

\* the decoder does not panic on such a message either
C18_TruncatedPotsNoPanic == DecodedTruncatedPots => output # Panic

\* the last operation was a call of a decoder, on the bytes last_call.msg
Decoded == last_call.op \in {"decode_server_bound", "decode_client_bound"}

Kind(msg) == SubSeq(msg, 1, 2)

\* the message kinds of each side, by their two leading bytes
ServerBoundKinds == {<<0, 0>>, <<0, 2>>, <<0, 3>>, <<0, 4>>, <<1, 0>>, <<1, 1>>, <<1, 2>>}

ClientBoundKinds ==
    {<<0, 0>>, <<0, 2>>, <<0, 4>>, <<0, 5>>, <<0, 6>>, <<1, 0>>, <<1, 2>>, <<1, 3>>, <<1, 5>>,
     <<1, 6>>, <<1, 8>>, <<1, 9>>, <<1, 10>>, <<1, 11>>, <<1, 13>>}

\* the length of the messages of a kind whose layout has a fixed width, as
\* the encoders write them; a username has at least one character
FixedWidth(op, msg) ==
    IF op = "decode_server_bound"
    THEN CASE Kind(msg) \in {<<0, 0>>, <<0, 3>>} -> 3
           [] Kind(msg) = <<1, 1>> -> 6
           [] OTHER -> 2
    ELSE CASE Kind(msg) \in {<<0, 4>>, <<0, 5>>, <<0, 6>>, <<1, 2>>, <<1, 9>>, <<1, 10>>} -> 3
           [] Kind(msg) = <<0, 2>> -> 7
           [] Kind(msg) = <<1, 0>> -> 4
           [] Kind(msg) = <<1, 3>> -> IF Len(msg) >= 4 /\ msg[4] = 1 THEN 8 ELSE 4
           [] Kind(msg) = <<1, 5>> -> 6
           [] Kind(msg) = <<1, 8>> -> 5
           [] OTHER -> 2

\* an element of the list of a message ends before its fixed-width part
\* does: the 6 bytes of a listed player, the 4 of a pot, the 11 of a
\* Showdown entry, the 6 and the 3 of a ShowdownStep
RECURSIVE ElementCutShort(_, _)
ElementCutShort(msg, idx) ==
    /\ idx < Len(msg)
    /\ CASE Kind(msg) = <<0, 0>> ->
                Len(msg) < idx + 6 \/ ElementCutShort(msg, list_end(msg, idx + 6) + 1)
         [] Kind(msg) = <<1, 6>> ->
                Len(msg) < idx + 4 \/ ElementCutShort(msg, list_end(msg, idx + 4) + 1)
         [] Kind(msg) = <<1, 11>> ->
                Len(msg) < idx + 11 \/ ElementCutShort(msg, idx + 11)
         [] Kind(msg) = <<1, 13>> ->
                LET fixed == list_end(msg, idx) + 1
                IN  \/ Len(msg) < fixed + 6
                    \/ LET reason == list_end(msg, fixed + 6) + 1
                       IN  Len(msg) < reason + 3 \/ ElementCutShort(msg, reason + 3)
         [] OTHER -> FALSE

CutShort(op, msg) ==
    \/ Len(msg) < 2
    \/ Len(msg) < FixedWidth(op, msg)
    \/ op = "decode_client_bound" /\ ElementCutShort(msg, 2)

\* the places of the card bytes of a message that is not cut short, counted
\* from 0: a byte 255 in the place of an absent card is not a card byte
RECURSIVE StepCardPlaces(_, _)
StepCardPlaces(msg, idx) ==
    IF ~(idx < Len(msg)) THEN {}
    ELSE LET reason == list_end(msg, list_end(msg, idx) + 7) + 1
         IN  (IF at(msg, reason) \in {1, 2, 3} THEN {reason + 1, reason + 2} ELSE {})
                 \cup StepCardPlaces(msg, reason + 3)

CardPlaces(msg) ==
    CASE Kind(msg) = <<1, 0>> -> {2, 3}
      [] Kind(msg) = <<1, 8>> -> {2, 3, 4}
      [] Kind(msg) \in {<<1, 9>>, <<1, 10>>} -> {2}
      [] Kind(msg) = <<1, 11>> ->
             {i \in 2 .. Len(msg) - 1 :
                 \/ (i - 2) % 11 \in {1, 2}
                 \/ (i - 2) % 11 \in {4, 5, 6, 7, 8, 9, 10} /\ at(msg, i) # Sentinel}
      [] Kind(msg) = <<1, 13>> -> StepCardPlaces(msg, 2)
      [] OTHER -> {}

BadCard(op, msg) ==
    /\ op = "decode_client_bound"
    /\ ~CutShort(op, msg)
    /\ \E i \in CardPlaces(msg) : at(msg, i) % 16 > 12

UnknownKind(op, msg) ==
    /\ Len(msg) >= 2
    /\ \/ op = "decode_server_bound" /\ Kind(msg) \notin ServerBoundKinds
       \/ op = "decode_client_bound" /\ Kind(msg) \notin ClientBoundKinds

\* C19: on every byte sequence the two decoders return a value or a failure
\* and do not panic; they return a failure when the bytes stop before the
\* fixed-width layout of their kind does, when a card byte has a rank above
\* 12, and when the leading bytes are those of no message kind
C19_DecodersTotal ==
    Decoded =>
        /\ output # Panic
        /\ Len(output) <= 1
        /\ CutShort(last_call.op, last_call.msg) => output = None
        /\ BadCard(last_call.op, last_call.msg) => output = None
        /\ UnknownKind(last_call.op, last_call.msg) => output = None

C19_Witness ==
    /\ Decoded
    /\ Len(last_call.msg) = 24
    /\ Kind(last_call.msg) = <<1, 11>>
    /\ BadCard(last_call.op, last_call.msg)
    /\ output = None

\* the payloads of the frames of a stream: the length byte 0 carries none
Payloads(frames) == SelectSeq(frames, LAMBDA payload : payload # <<>>)

IsPrefix(s, t) == Len(s) <= Len(t) /\ s = SubSeq(t, 1, Len(s))

\* a loop of networking.rs has read the stream to its end, or has returned
ReadingOver ==
    /\ last_call.op \in {"handle_client", "client_network_loop"}
    /\ stream = <<>> \/ status = "returned"

\* C20: however the reads split the bytes of a sequence of frames, the loop
\* hands the decoder the payloads of the frames, each once and in order, and
\* none for a length byte 0
C20_ReassemblyIgnoresChunking ==
    last_call.op \in {"handle_client", "client_network_loop"} =>
        /\ IsPrefix(output.handed, Payloads(input))
        /\ ReadingOver => output.handed = Payloads(input)

\* the payloads up to the first that is a Leave command, that one included
RECURSIVE UpToLeave(_)
UpToLeave(payloads) ==
    IF payloads = <<>> THEN <<>>
    ELSE IF decode_server_bound(Head(payloads)) = Some(LeaveCommand) THEN <<Head(payloads)>>
    ELSE <<Head(payloads)>> \o UpToLeave(Tail(payloads))

\* the payloads a loop is to hand over: handle_client returns at a Leave
Expected ==
    IF last_call.op = "handle_client" THEN UpToLeave(Payloads(input)) ELSE Payloads(input)

\* C20 as amended: the same, up to the Leave command at which handle_client
\* returns
C20_ReassemblyUntilLeave ==
    last_call.op \in {"handle_client", "client_network_loop"} =>
        /\ IsPrefix(output.handed, Expected)
        /\ ReadingOver => output.handed = Expected
        /\ (status = "returned" /\ stream # <<>>) =>
               decode_server_bound(output.handed[Len(output.handed)]) = Some(LeaveCommand)

\* three payloads around a length byte 0 have come in reads that cut them
C20_Witness ==
    /\ last_call.op = "client_network_loop"
    /\ stream = <<>>
    /\ Len(input) = 3
    /\ input[2] = <<>>
    /\ output.handed = <<<<0, 4, 2>>, <<0, 3, 0>>>>

(***************************************************************************)
(* C21: the length byte written before a message equals the length of the  *)
(* encoded message, for every message sent, the UpdatePlayerList of a      *)
(* lobby of many players included.                                         *)
(***************************************************************************)
C21_LengthByteIsLength ==
    output # <<>> => output[1] = Len(output) - 1

(***************************************************************************)
(* C24: a Login is admitted only when its username is ASCII, has 3 to 16   *)
(* characters, holds no space and differs, letter case ignored, from the   *)
(* usernames of the lobby; every other Login leaves the lobby as it was;   *)
(* no two players of the lobby have usernames equal up to letter case.     *)
(***************************************************************************)
LoginName == SubSeq(input.message, 3, Len(input.message))

Admissible(name, l) ==
    /\ is_ascii(name)
    /\ Len(name) >= 3
    /\ Len(name) <= 16
    /\ 32 \notin Range(name)
    /\ \A c \in DOMAIN l.players : ~eq_ignore_ascii_case(l.players[c].username, name)

C24_LoginAdmission ==
    (last_call.op = "handle_message" /\ input.message[2] = 0) =>
        /\ lobby # input.lobby => Admissible(LoginName, input.lobby)
        /\ \A c, d \in DOMAIN lobby.players :
               c # d => ~eq_ignore_ascii_case(lobby.players[c].username,
                                              lobby.players[d].username)

HandInProgress == players # <<>> /\ status = "ok"

\* the Game after the step is the Game before it, further on in its hand
SameHand ==
    /\ DOMAIN players' = DOMAIN players
    /\ public_cards' = public_cards
    /\ current_phase' >= current_phase
    /\ \A i \in DOMAIN players :
           /\ players'[i].private_cards = players[i].private_cards
           /\ players'[i].total_contribution >= players[i].total_contribution

C26_NoNewHandDuringHand ==
    [][HandInProgress =>
           /\ last_call'.message = <<0, 3, 1>> => UNCHANGED game_vars
           /\ players' # <<>> => SameHand
           /\ players' = <<>> => HasEvent(events', "Showdown")]_vars

(***************************************************************************)
(* C27: a leave during a hand, of a player dealt in or of one who logged   *)
(* in after the hand started, does not end the lobby loop; unless it       *)
(* brings the showdown, the player is folded and queued for removal and    *)
(* the players of the Game, their contributions and id_list stay as they   *)
(* were.                                                                   *)
(***************************************************************************)
\* the step handles the leave packet of a player of the lobby
LeaveDuringHand ==
    /\ HandInProgress
    /\ last_call'.op = "handle_message"
    /\ last_call'.message = <<0, 2>>
    /\ queued_for_removal' # queued_for_removal

Leaver == find_id_from_client(lobby.id_list, last_call'.client)[1]

C27_LeaveOnlyFolds ==
    [][(LeaveDuringHand /\ ~HasEvent(events', "Showdown")) =>
           /\ status' = "ok"
           /\ queued_for_removal' = queued_for_removal \cup {Leaver}
           /\ lobby' = lobby
           /\ DOMAIN players' = DOMAIN players
           /\ \A i \in DOMAIN players :
                  /\ players'[i].total_contribution = players[i].total_contribution
                  /\ players'[i].money = players[i].money
                  /\ players'[i].has_folded = (players[i].has_folded \/ i = Leaver)]_vars

(***************************************************************************)
(* C28: the call that ends a hand with its showdown removes from the lobby *)
(* exactly the players who left during the hand, two or more of them       *)
(* included, and no other player.                                          *)
(***************************************************************************)
HandEnds == HandInProgress /\ players' = <<>> /\ status' = "ok"

\* the connections queued for removal when the showdown is resolved
Leavers == {lobby.id_list[p + 1] : p \in queued_for_removal \cup
                (IF LeaveDuringHand THEN {Leaver} ELSE {})}

C28_ExactlyLeaversRemoved ==
    [][HandEnds =>
           lobby'.id_list = SelectSeq(lobby.id_list, LAMBDA c : c \notin Leavers)]_vars

(***************************************************************************)
(* C29: a leave during a hand after which exactly one player is neither    *)
(* folded nor without money brings the showdown in the same call, whether  *)
(* the leaver was on turn or not.                                          *)
(***************************************************************************)
C29_LeaveToOneActiveShowsDown ==
    [][(LeaveDuringHand /\ players' # <<>> /\ status' = "ok"
            /\ one_active_player(players')) =>
           HasEvent(events', "Showdown")]_vars

(***************************************************************************)
(* C30: a game action of a player of the lobby while no hand is in         *)
(* progress changes nothing and the lobby loop goes on.                    *)
(***************************************************************************)
C30_GameActionWithoutHandIsNoOp ==
    [][(players = <<>> /\ status = "ok" /\ last_call'.op = "handle_message"
            /\ last_call'.message[1] = 1) =>
           /\ status' = "ok"
           /\ UNCHANGED <<lobby, game_vars, queued_for_removal>>]_vars

(***************************************************************************)
(* C22: the inbox of a connection holds at most one Leave packet (0 2),    *)
(* nothing follows it, and the inbox of a worker that has returned ends    *)
(* with it, also when the peer sent a Leave of its own before it closed.   *)
(***************************************************************************)
Inbox(c) == shared.client_events[c]

C22_OneLeaveAndNothingBehind ==
    \A c \in Connections :
        /\ \A k \in DOMAIN Inbox(c) : Inbox(c)[k] = <<0, 2>> => k = Len(Inbox(c))
        /\ receiver[c].state = "returned" =>
               (Inbox(c) # <<>> /\ Inbox(c)[Len(Inbox(c))] = <<0, 2>>)

(***************************************************************************)
(* C23: the packets pushed for a connection are those its peer sent, in    *)
(* that order, before the Leave the worker adds; the packets               *)
(* handle_message was called with are the first of them, each once and in  *)
(* that order; and none is left behind: when the lobby loop has ended,     *)
(* every packet pushed has been handled.                                   *)
(***************************************************************************)
PushedInOrder(c) ==
    \/ IsPrefix(Inbox(c), input[c])
    \/ /\ Inbox(c) # <<>>
       /\ Inbox(c)[Len(Inbox(c))] = <<0, 2>>
       /\ IsPrefix(SubSeq(Inbox(c), 1, Len(Inbox(c)) - 1), input[c])

HandledInOrder(c) == IsPrefix(output[c], Inbox(c))

C23_OrderKept == \A c \in Connections : PushedInOrder(c) /\ HandledInOrder(c)

C23_EveryCommandHandledOnce ==
    /\ C23_OrderKept
    /\ status # "ok" => \A c \in Connections : output[c] = Inbox(c)

(***************************************************************************)
(* C31: in a hand in which every player only calls or checks, the pots of  *)
(* every UpdatePots event hold everything the players have put in, the     *)
(* forced bets included, and the hand comes to a Showdown event.           *)
(***************************************************************************)
RECURSIVE SumOver(_, _)
SumOver(f, ids) ==
    IF ids = {} THEN 0
    ELSE LET i == CHOOSE j \in ids : TRUE
         IN  f[i] + SumOver(f, ids \ {i})

\* what the players have put in since they were seated with the stacks input
PutIn == SumOver(input, DOMAIN input) - SumOver([i \in DOMAIN players |-> players[i].money],
                                                DOMAIN players)

PotsHoldAllPutIn ==
    \A k \in DOMAIN events :
        events[k].type = "UpdatePots" => SumPots(events[k].pots) = PutIn

ReachesShowdown == <>HasEvent(events, "Showdown")

\* C31: a hand of calls and checks keeps every chip put in in the pots and
\* comes to a Showdown event
C31_PassiveHandIsPlayedOut == [](PotsHoldAllPutIn) /\ ReachesShowdown

(***************************************************************************)
(* C32: every accepted AddMoney makes the acting player last_bettor and    *)
(* leaves current_bet at the larger of the old current_bet and the         *)
(* player's new total_contribution, a plain call and a short all-in        *)
(* included.                                                               *)
(***************************************************************************)
AcceptedAddMoney ==
    /\ last_call'.op = "advance_game"
    /\ last_call'.action.type = "AddMoney"
    /\ status' = "ok"
    /\ events' # <<>>

C32_AddMoneySetsBettorAndBet ==
    [][AcceptedAddMoney =>
           /\ last_bettor' = current_turn
           /\ current_bet' = IF players'[current_turn].total_contribution > current_bet
                             THEN players'[current_turn].total_contribution
                             ELSE current_bet]_vars

\* the half that holds: an accepted AddMoney never lowers current_bet, and a
\* raise makes the actor last_bettor at the new total_contribution
C32_RaiseSetsBettorAndBet ==
    [][AcceptedAddMoney =>
           /\ current_bet' >= current_bet
           /\ players'[current_turn].total_contribution > current_bet =>
                  /\ last_bettor' = current_turn
                  /\ current_bet' = players'[current_turn].total_contribution]_vars


(***************************************************************************)
(* C33: when advance_game has returned a Showdown event the Game is in     *)
(* phase 4, so that evaluate_showdown's assertion holds, and the phase is  *)
(* never outside 0 .. 4.                                                   *)
(***************************************************************************)
ShowdownInPhase4 == HasEvent(events, "Showdown") => current_phase = 4

PhaseInRange == current_phase \in 0 .. 4

C33_ShowdownOnlyInPhase4 == ShowdownInPhase4 /\ PhaseInRange

(***************************************************************************)
(* C34: compute_pots returns no pot with money 0, whatever the             *)
(* contributions are, and the subtraction that gives a pot's size never    *)
(* goes below 0.                                                           *)
(***************************************************************************)
NoEmptyPot ==
    \A k \in DOMAIN events :
        events[k].type = "UpdatePots" =>
            \A n \in DOMAIN events[k].pots : events[k].pots[n].money > 0

C34_NoZeroPotNoUnderflow ==
    last_call.op = "compute_pots" => status = "ok" /\ NoEmptyPot

(***************************************************************************)
(* C35: the steps evaluate_showdown returns cover the pots in order: the   *)
(* ranges pot_start_index .. pot_end_index follow one another without gap  *)
(* or overlap from the first pot to the last, the winnings of a step are   *)
(* the sum of the money of the pots of its range, and the pot after a      *)
(* step's first is in its range exactly when it lists every winner of the  *)
(* step.                                                                   *)
(***************************************************************************)
\* the pots evaluate_showdown computed: it changes money only, and
\* compute_pots reads total_contribution and has_folded
ShowdownPots == compute_pots(players)

ListsEveryWinner(pot, step) ==
    \A w \in DOMAIN step.winners : step.winners[w] \in pot.eligible_players

RangesCoverPots(steps, pots) ==
    /\ (steps = <<>>) = (pots = <<>>)
    /\ steps # <<>> => /\ steps[1].pot_start_index = 0
                       /\ steps[Len(steps)].pot_end_index = Len(pots) - 1
    /\ \A k \in DOMAIN steps : steps[k].pot_start_index <= steps[k].pot_end_index
    /\ \A k \in 1 .. (Len(steps) - 1) :
           steps[k + 1].pot_start_index = steps[k].pot_end_index + 1

WinningsOfRange(step, pots) ==
    step.winnings = wrapping_sum(SubSeq(Vec([m \in DOMAIN pots |-> pots[m].money]),
                                        step.pot_start_index + 1, step.pot_end_index + 1))

MergedExactlyWhenListed(step, pots) ==
    /\ \A m \in (step.pot_start_index + 2) .. (step.pot_end_index + 1) :
           ListsEveryWinner(pots[m], step)
    /\ step.pot_end_index + 2 <= Len(pots) =>
           ~ListsEveryWinner(pots[step.pot_end_index + 2], step)

C35_StepsCoverPots ==
    ShowdownReturned =>
        /\ RangesCoverPots(output, ShowdownPots)
        /\ \A k \in DOMAIN output :
               /\ WinningsOfRange(output[k], ShowdownPots)
               /\ MergedExactlyWhenListed(output[k], ShowdownPots)

\* a showdown with a step of two pots followed by a step of its own
C35_Witness ==
    /\ ShowdownReturned
    /\ Len(output) >= 2
    /\ output[1].pot_end_index > output[1].pot_start_index

(***************************************************************************)
(* C36: chips are conserved over a hand: from make_game on, the money and  *)
(* the total_contribution of all players add up to the stacks the players  *)
(* were seated with, the forced bets being counted as contributions.       *)
(***************************************************************************)
ChipsOnTable ==
    SumOver([i \in DOMAIN players |-> players[i].money + players[i].total_contribution],
            DOMAIN players)

C36_ChipsConserved == ChipsOnTable = SumOver(input, DOMAIN input)

\* what the code keeps instead: the chips on the table are those seated less
\* the two forced bets
C36_ChipsLessBlinds == ChipsOnTable = SumOver(input, DOMAIN input) - SmallBlind - BigBlind

(***************************************************************************)
(* C37: advance_game comes to an end for every accepted action: the search *)
(* for the next player to act ends also when no player is left who has     *)
(* not folded and has money.                                               *)
(***************************************************************************)
C37_AdvanceGameTerminates == last_call.op = "advance_game" => status # "hung"

(***************************************************************************)
(* C38: evaluate_showdown comes to an end in every state the lobby can     *)
(* bring a Game to, also when a pot lists no player because everyone who   *)
(* contributed at its level has folded or left.                            *)
(***************************************************************************)
\* advance_game hangs only in its search for the next player
\* (next_turn_diverges); another call that never returns is in the loop over
\* the pots
ShowdownLoopHung == status = "hung" /\ players # <<>> /\ ~next_turn_diverges(players)

C38_EvaluateShowdownTerminates == ~ShowdownLoopHung

(***************************************************************************)
(* C39: current_bet changes only through an accepted AddMoney that raises  *)
(* it above its old value: Check, Fold, a call and the closing of a        *)
(* betting round leave it as it was.                                       *)
(***************************************************************************)
RaisingAddMoney ==
    /\ AcceptedAddMoney
    /\ players'[current_turn].total_contribution > current_bet

C39_BetChangesOnlyByRaise ==
    [][current_bet' # current_bet => RaisingAddMoney]_vars

(***************************************************************************)
(* C40: a game action that comes from a connection whose seat is not       *)
(* current_turn is ignored: handle_message leaves the Game and the Lobby   *)
(* as they were and pushes no packet.  Only the seat on turn changes the   *)
(* game by a game action.                                                  *)
(***************************************************************************)
SeatOf(client) == find_id_from_client(lobby.id_list, client)

OffTurn(client) == SeatOf(client) # Some(current_turn)

NothingPushed(out) ==
    /\ out.broadcast_events = <<>>
    /\ \A c \in DOMAIN out.private_events : out.private_events[c] = <<>>

C40_OffTurnActionIgnored ==
    [][(last_call'.op = "handle_message" /\ OffTurn(input.client)) =>
           /\ UNCHANGED <<game_vars, lobby, queued_for_removal>>
           /\ status' = "ok"
           /\ NothingPushed(output')]_vars

\* a seated player off turn has sent a well-formed add-money packet, and
\* handle_message has returned
C40_Witness ==
    /\ last_call.op = "handle_message"
    /\ input.message = <<1, 1, 1>>
    /\ SeatOf(input.client) # None
    /\ OffTurn(input.client)
    /\ SeatOf(input.client)[1] \in DOMAIN players
    /\ ~players[SeatOf(input.client)[1]].has_folded
    /\ status = "ok"
=============================================================================
